---------------------------- MODULE Spec2Model ----------------------------
(***************************************************************************)
(* Error-monitor-db: grouping of log errors into error classes, the Redis  *)
(* key layout that counts their occurrences, and the deploy-monitor        *)
(* decision of server.py.                                                  *)
(*                                                                         *)
(* Text is modelled as a sequence of tokens.  A token is a word without    *)
(* digits or blanks, one digit, one blank " ", or one punctuation mark, so *)
(* that the regular expressions of models.py act on token sequences the    *)
(* way they act on the characters.  An absent value (Python None) of a     *)
(* text field is the empty sequence; MD5 is modelled as collision free.    *)
(***************************************************************************)
EXTENDS Integers, Sequences, FiniteSets, TLC

(***************************************************************************)
(* Bounds of the model.                                                    *)
(***************************************************************************)
MaxRecords == 3
MaxReads == 2
MaxTicks == 1

(***************************************************************************)
(* Program constants.                                                      *)
(***************************************************************************)
KEY_EXPIRY_SECONDS == 604800
fast_key_expiry_seconds == 3600
URI_BLACKLIST == { <<"/api", "/internal", "/translate", "/lint_poentry">> }
ERROR_ID_KEYS == <<"id0", "id1", "id2", "id3">>
Digits == {"0", "1", "2", "3", "4", "5", "6", "7", "8", "9"}
NoText == << >>
NoKey == << >>

(***************************************************************************)
(* Text helpers.                                                           *)
(***************************************************************************)
StartsWith(s, p) ==
    /\ Len(s) >= Len(p)
    /\ SubSeq(s, 1, Len(p)) = p

Contains(s, p) ==
    \E i \in 1..(Len(s) - Len(p) + 1) : SubSeq(s, i, i + Len(p) - 1) = p

RECURSIVE Join(_, _)
Join(words, sep) ==
    IF words = << >> THEN << >>
    ELSE IF Len(words) = 1 THEN words[1]
    ELSE words[1] \o sep \o Join(Tail(words), sep)

Words(ws) == Join(ws, << " " >>)

\* str.split(" "): every blank ends a word, so "a  b" has an empty word.
RECURSIVE Split(_, _)
Split(s, cur) ==
    IF s = << >> THEN << cur >>
    ELSE IF Head(s) = " " THEN << cur >> \o Split(Tail(s), << >>)
    ELSE Split(Tail(s), Append(cur, Head(s)))

\* re.sub(r'\d+', '%%', s): every maximal run of digits becomes one "%%".
RECURSIVE SubDigits(_, _)
SubDigits(s, inRun) ==
    IF s = << >> THEN << >>
    ELSE IF Head(s) \in Digits
         THEN (IF inRun THEN << >> ELSE << "%%" >>) \o SubDigits(Tail(s), TRUE)
         ELSE << Head(s) >> \o SubDigits(Tail(s), FALSE)

\* Python slice words[lo:hi] with 0-based lo, exclusive hi, clipped.
Slice(words, lo, hi) ==
    SubSeq(words, lo + 1, IF hi < Len(words) THEN hi ELSE Len(words))

LastN(words, n) ==
    SubSeq(words, IF Len(words) > n THEN Len(words) - n + 1 ELSE 1, Len(words))

\* The longest prefix of s that has no token of stop.
RECURSIVE TakeUntil(_, _)
TakeUntil(s, stop) ==
    IF s = << >> \/ Head(s) \in stop THEN << >>
    ELSE << Head(s) >> \o TakeUntil(Tail(s), stop)

(***************************************************************************)
(* models._parse_message                                                   *)
(***************************************************************************)
promotion_prefix == << "[promoted", " ", "from", " ", "WARNING]", " " >>
NoAttributeRe == << "object", " ", "has", " ", "no", " ", "attribute" >>
SignatureRe == << "Error", " ", "in", " ", "signature", " ", "for" >>
MemcacheRe == << "Memcache", " ", "set", " ", "failed", " ", "for", " " >>
MemcacheStop == { "(", "[", "{", "'", "\"" }

\* The title: the first line without the promotion prefix, or the last
\* line when that is empty.
ParseTitle(message) ==
    LET first == message[1]
        stripped == IF StartsWith(first, promotion_prefix)
                    THEN SubSeq(first, Len(promotion_prefix) + 1, Len(first))
                    ELSE first
    IN  IF stripped = << >> THEN message[Len(message)] ELSE stripped

\* A bug that takes every title for combinable.
AlwaysCombinable(title) == 0

\* Index of the first regex of _NON_COMBINABLE_ERRORS that matches, or 0.
NonCombinable(title) ==
    IF Contains(title, NoAttributeRe) THEN 1
    ELSE IF StartsWith(title, SignatureRe) THEN 2
    ELSE IF StartsWith(title, MemcacheRe) THEN 3
    ELSE 0

Md5(s) == << "md5" >> \o s

TextOrNone(s) == IF s = NoText THEN << "None" >> ELSE s

\* A bug that keeps the digits of the title in the identifiers.
TitleWithDigits(title) == title

\* re.sub(r'\d+', '%%', error_def['title'])
NormalisedTitle(title) == SubDigits(title, FALSE)

ParseErrorDef(message, status, level) ==
    LET title == ParseTitle(message)
        id_prefix == << status, " ", level, " " >>
        id0 == id_prefix \o NormalisedTitle(title)
        words == Split(id0, << >>)
        nc == NonCombinable(title)
        id1 == IF nc # 0 THEN NoText
               ELSE id_prefix \o Join(Slice(words, 2, 5), << " " >>)
        id2 == IF nc # 0 THEN NoText
               ELSE id_prefix \o Join(LastN(words, 3), << " " >>)
        id3 == IF nc = 3
               THEN MemcacheRe \o
                    TakeUntil(SubSeq(title, Len(MemcacheRe) + 1, Len(title)),
                              MemcacheStop)
               ELSE NoText
    IN  [ key |-> Md5(TextOrNone(id0) \o TextOrNone(id1) \o
                      TextOrNone(id2) \o TextOrNone(id3)),
          title |-> title, status |-> status, level |-> level,
          id0 |-> id0, id1 |-> id1, id2 |-> id2, id3 |-> id3 ]


\* The stack trace: the lines after the first that begin with "  File "
\* and have the shape of a frame; a truncated frame line is skipped.  A
\* frame line is << "  File ", prefix, path, ", line ", lineno, ", in ",
\* function >>, prefix being the versioned deploy path or empty.
IsFrameLine(line) ==
    /\ Len(line) = 7
    /\ line[1] = "  File "
    /\ line[4] = ", line "
    /\ line[6] = ", in "

RECURSIVE ParseStack(_)
ParseStack(lines) ==
    IF lines = << >> THEN << >>
    ELSE LET line == Head(lines)
         IN  IF line # << >> /\ Head(line) = "Traceback"
             THEN ParseStack(Tail(lines))
             ELSE IF IsFrameLine(line)
             THEN << [ filename |-> line[3], lineno |-> line[5],
                       function |-> line[7] ] >> \o ParseStack(Tail(lines))
             ELSE ParseStack(Tail(lines))

RECURSIVE StackText(_)
StackText(stack) ==
    IF stack = << >> THEN << >>
    ELSE << stack[1].filename, ":", stack[1].function >> \o
         (IF Len(stack) > 1 THEN << "|" >> ELSE << >>) \o
         StackText(Tail(stack))

parse_message(message, status, level) ==
    LET stack == ParseStack(Tail(message))
    IN  [ error_def |-> ParseErrorDef(message, status, level),
          stack |-> stack,
          stack_key |-> Md5(StackText(stack)) ]

(***************************************************************************)
(* The Redis commands models.py uses.  A database db is a record of data   *)
(* (key -> value; an absent key is outside the domain) and ttl (key ->     *)
(* the time at which the key expires; a key without expiry is outside the  *)
(* domain).  The callers pass EXPIRE's deadline, the current time plus the *)
(* seconds of the call.                                                    *)
(***************************************************************************)
Put(f, k, v) == (k :> v) @@ f

Count(f, k) == IF k \in DOMAIN f THEN f[k] ELSE 0

Drop(f, k) == [ x \in DOMAIN f \ {k} |-> f[x] ]

EmptyDb == [ data |-> << >>, ttl |-> << >> ]

Exists(db, k) == k \in DOMAIN db.data

Del(db, k) == [ data |-> Drop(db.data, k), ttl |-> Drop(db.ttl, k) ]

\* SET discards the time to live of the key.
RSet(db, k, v) == [ data |-> Put(db.data, k, v), ttl |-> Drop(db.ttl, k) ]

RExpire(db, k, secs) ==
    IF Exists(db, k) THEN [ db EXCEPT !.ttl = Put(db.ttl, k, secs) ] ELSE db

Fields(db, k) == IF Exists(db, k) THEN db.data[k] ELSE << >>

HasField(db, k, f) == f \in DOMAIN Fields(db, k)

HSet(db, k, f, v) == [ db EXCEPT !.data = Put(db.data, k, Put(Fields(db, k), f, v)) ]

Score(db, k, m) == IF HasField(db, k, m) THEN db.data[k][m] ELSE 0

HIncrBy(db, k, f, n) == HSet(db, k, f, Score(db, k, f) + n)

ZIncrBy(db, k, m) == HSet(db, k, m, Score(db, k, m) + 1)

ZAdd(db, k, score, m) == HSet(db, k, m, score)

Members(db, k) == DOMAIN Fields(db, k)

\* ZREM and ZREMRANGEBYSCORE delete a sorted set that becomes empty.
RemoveMembers(db, k, ms) ==
    LET left == [ m \in Members(db, k) \ ms |-> db.data[k][m] ]
    IN  IF ~Exists(db, k) THEN db
        ELSE IF DOMAIN left = {} THEN Del(db, k)
        ELSE [ db EXCEPT !.data = Put(db.data, k, left) ]

ZRemRangeByScore(db, k, lo, hi) ==
    RemoveMembers(db, k, { m \in Members(db, k) :
                               db.data[k][m] >= lo /\ db.data[k][m] <= hi })

(***************************************************************************)
(* The in-process caches and the resolution of an error key.  caches is a  *)
(* record of def (_error_def_cache: key -> cached definition) and id       *)
(* (_error_id_cache: one table identifier -> key per identifier kind).     *)
(***************************************************************************)
EmptyCaches == [ def |-> << >>, id |-> [ i \in 1..4 |-> << >> ] ]

ERROR_LEVELS(level) ==
    IF level = "3" THEN "ERROR" ELSE IF level = "4" THEN "CRITICAL" ELSE ""

NoDef == [ key |-> NoKey ]

\* models._get_cached_error_def: the definition and the caches after the
\* read-through.  Every identifier of the payload, absent ones too, is
\* entered in the identifier tables.
get_cached_error_def(caches, db, error_key) ==
    IF error_key \in DOMAIN caches.def
    THEN [ caches |-> caches, error_def |-> caches.def[error_key] ]
    ELSE IF ~Exists(db, << "error", error_key >>)
    THEN [ caches |-> caches, error_def |-> NoDef ]
    ELSE LET payload == db.data[<< "error", error_key >>]
             err == [ key |-> payload.key, title |-> payload.title,
                      status |-> payload.status, level |-> payload.level,
                      id0 |-> payload.id0, id1 |-> payload.id1,
                      id2 |-> payload.id2, id3 |-> payload.id3,
                      level_readable |-> ERROR_LEVELS(payload.level) ]
         IN  [ caches |->
                 [ def |-> Put(caches.def, error_key, err),
                   id |-> [ i \in 1..4 |->
                              Put(caches.id[i], err[ERROR_ID_KEYS[i]], error_key) ] ],
               error_def |-> err ]

\* The key of the first identifier kind, in the order id0..id3, whose
\* non-empty identifier is in its table; NoKey when there is none.
FirstIdHit(tables, error_def) ==
    LET hits == { i \in 1..4 :
                    /\ error_def[ERROR_ID_KEYS[i]] # NoText
                    /\ error_def[ERROR_ID_KEYS[i]] \in DOMAIN tables[i] }
        first == CHOOSE i \in hits : \A j \in hits : i <= j
    IN  IF hits = {} THEN NoKey
        ELSE tables[first][error_def[ERROR_ID_KEYS[first]]]

RedisIdTables(db) == [ i \in 1..4 |-> Fields(db, << "errordef", ERROR_ID_KEYS[i] >>) ]

FirstKey(a, b) == IF a # NoKey THEN a ELSE b

\* A bug that looks an error up by its hash only.
FindByKeyOnly(caches, db, error_def) ==
    IF \/ error_def.key \in DOMAIN caches.def
       \/ Exists(db, << "error", error_def.key >>)
    THEN error_def.key
    ELSE NoKey

\* models._find_error_by_def
find_error_by_def(caches, db, error_def) ==
    IF \/ error_def.key \in DOMAIN caches.def
       \/ Exists(db, << "error", error_def.key >>)
    THEN error_def.key
    ELSE FirstKey(FirstIdHit(caches.id, error_def),
                  FirstIdHit(RedisIdTables(db), error_def))

RECURSIVE StoreIds(_, _, _, _)
StoreIds(db, error_def_to_put, error_key, i) ==
    IF i > 4 THEN db
    ELSE StoreIds(
           IF error_def_to_put[ERROR_ID_KEYS[i]] # NoText
           THEN HSet(db, << "errordef", ERROR_ID_KEYS[i] >>,
                     error_def_to_put[ERROR_ID_KEYS[i]], error_key)
           ELSE db,
           error_def_to_put, error_key, i + 1)

\* A bug that recreates an expired payload without taking the old key.
ErrorDefToPutOwnKey(db, error_def, found) ==
    IF found = NoKey THEN error_def
    ELSE IF Exists(db, << "error", found >>)
    THEN [ db.data[<< "error", found >>] EXCEPT
             !.title = error_def.title,
             !.status = error_def.status,
             !.level = error_def.level ]
    ELSE error_def

\* The payload _create_or_update_error writes under error_key.
ErrorDefToPut(db, error_def, found) ==
    IF found = NoKey THEN error_def
    ELSE IF Exists(db, << "error", found >>)
    THEN [ db.data[<< "error", found >>] EXCEPT
             !.title = error_def.title,
             !.status = error_def.status,
             !.level = error_def.level ]
    ELSE [ error_def EXCEPT !.key = found ]

\* The writes of _create_or_update_error: the payload, the identifier
\* tables and the expiry of the payload.
StoreErrorDef(db, error_def_to_put, error_key, expiry) ==
    [ db |-> RExpire(StoreIds(RSet(db, << "error", error_key >>, error_def_to_put),
                              error_def_to_put, error_key, 1),
                     << "error", error_key >>, expiry),
      error_key |-> error_key ]

\* A bug that trusts a key found in the caches or in the identifier
\* tables: the payload that has expired is not written again.
MaskedByFound(db, error_def, expiry, found) ==
    IF found # NoKey /\ ~Exists(db, << "error", found >>)
    THEN [ db |-> db, error_key |-> found ]
    ELSE StoreErrorDef(db, ErrorDefToPut(db, error_def, found),
                       IF found = NoKey THEN error_def.key ELSE found, expiry)

\* _create_or_update_error once _find_error_by_def has answered found.
CreateOrUpdateFound(db, error_def, expiry, found) ==
    StoreErrorDef(db, ErrorDefToPut(db, error_def, found),
                  IF found = NoKey THEN error_def.key ELSE found, expiry)

\* models._create_or_update_error: the database after the write and the
\* resolved key.
create_or_update_error(caches, db, error_def, expiry) ==
    CreateOrUpdateFound(db, error_def, expiry,
                        find_error_by_def(caches, db, error_def))

(***************************************************************************)
(* models._update_error_details                                            *)
(***************************************************************************)
IsBlacklisted(resource) == \E uri \in URI_BLACKLIST : StartsWith(resource, uri)

\* _CACHE_BUST_QUERY_PARAM_RE.sub('', resource): "_=" and the digits after
\* it are removed where the character before is "?" or "&".
RECURSIVE DropDigits(_)
DropDigits(s) ==
    IF s # << >> /\ Head(s) \in Digits THEN DropDigits(Tail(s)) ELSE s

RECURSIVE SubCacheBust(_, _)
SubCacheBust(s, prev) ==
    IF s = << >> THEN << >>
    ELSE IF /\ Head(s) = "_="
            /\ prev \in { "?", "&" }
            /\ Len(s) >= 2
            /\ s[2] \in Digits
         THEN SubCacheBust(DropDigits(Tail(s)), "0")
         ELSE << Head(s) >> \o SubCacheBust(Tail(s), Head(s))

\* One ZINCRBY followed by EXPIRE of the same key; secs is the deadline.
ZIncrExpire(db, k, m, secs) == RExpire(ZIncrBy(db, k, m), k, secs)

\* A bug that enters the version in the versions sorted set with score 1.
CountVersionOnce(db, error_key, version, expiry) ==
    RExpire(ZAdd(db, << "versions", error_key >>, 1, version),
            << "versions", error_key >>, expiry)

\* The versions sorted set of the key counts the occurrence.
CountVersion(db, error_key, version, expiry) ==
    ZIncrExpire(db, << "versions", error_key >>, version, expiry)

\* The counters _update_error_details writes for the resolved key.
UpdateDetails(db, error_key, parsed, expiry, version, resource, ip, route, module) ==
    LET db1 == ZIncrExpire(db, << "ver:error:ips", version, error_key >>,
                           ip, expiry)
        db2 == RExpire(HSet(db1, << "ver:error:stacks:msgs", version, error_key >>,
                            parsed.stack_key, parsed.stack),
                       << "ver:error:stacks:msgs", version, error_key >>, expiry)
        db3 == ZIncrExpire(db2, << "ver:error:stacks:counts", version, error_key,
                                   route >>, parsed.stack_key, expiry)
        db4 == ZIncrExpire(db3, << "ver:error:routes", version, error_key >>,
                           route, expiry)
        db5 == ZIncrExpire(db4, << "ver:error:uris", version, error_key, route >>,
                           SubCacheBust(resource, ""), expiry)
        db6 == ZIncrExpire(db5, << "ver:error:modules", version, error_key >>,
                           module, expiry)
        db7 == ZIncrExpire(db6, << "ver:errors", version >>, error_key, expiry)
    IN  [ db |-> CountVersion(db7, error_key, version, expiry),
          error_key |-> error_key ]

\* _update_error_details once the message is parsed and the key resolved.
UpdateCreated(created, parsed, expiry, version, resource, ip, route, module) ==
    UpdateDetails(created.db, created.error_key, parsed, expiry, version,
                  resource, ip, route, module)

UpdateParsed(caches, db, parsed, expiry, version, resource, ip, route, module) ==
    UpdateCreated(create_or_update_error(caches, db, parsed.error_def, expiry),
                  parsed, expiry, version, resource, ip, route, module)

\* A bug that records the occurrences of blacklisted URIs too.
UpdateUnfiltered(caches, db, expiry, version, status, level, resource, ip, route, module, message) ==
    UpdateParsed(caches, db, parse_message(message, status, level), expiry,
                 version, resource, ip, route, module)

update_error_details(caches, db, expiry, version, status, level, resource, ip, route, module, message) ==
    IF IsBlacklisted(resource) THEN [ db |-> db, error_key |-> NoKey ]
    ELSE UpdateParsed(caches, db, parse_message(message, status, level), expiry,
                      version, resource, ip, route, module)

(***************************************************************************)
(* Deploy-time monitoring (models.py)                                      *)
(***************************************************************************)
MON(version) == << "MON_" >> \o version

\* A bug that counts every occurrence as the first from its address.
CountEveryOccurrence(db, unique, ip_minute, error_key, expiry) ==
    ZIncrExpire(db, unique, error_key, expiry)

\* The unique count of the minute goes up with the first occurrence from
\* the address.
CountUnique(db, unique, ip_minute, error_key, expiry) ==
    IF Score(db, ip_minute, error_key) = 1
    THEN ZIncrExpire(db, unique, error_key, expiry)
    ELSE db

\* A bug that counts the occurrence in the minute only when it is the
\* first from its address.
RecordMinuteFirstOnly(upd, t, version, minute, ip) ==
    IF upd.error_key = NoKey THEN upd
    ELSE [ db |->
             LET counted ==
                   ZIncrExpire(upd.db,
                               << "ver:ip:errors_by_minute", MON(version), ip,
                                  minute >>,
                               upd.error_key, t + fast_key_expiry_seconds)
             IN  IF Score(counted,
                          << "ver:ip:errors_by_minute", MON(version), ip, minute >>,
                          upd.error_key) = 1
                 THEN ZIncrExpire(
                          ZIncrExpire(counted,
                                      << "ver:errors_by_minute", MON(version),
                                         minute >>,
                                      upd.error_key, t + KEY_EXPIRY_SECONDS),
                          << "ver:unique_errors_by_minute", MON(version), minute >>,
                          upd.error_key, t + KEY_EXPIRY_SECONDS)
                 ELSE counted,
           error_key |-> upd.error_key ]

\* record_occurrence_during_monitoring after _update_error_details.
RecordMinute(upd, t, version, minute, ip) ==
    IF upd.error_key = NoKey THEN upd
    ELSE [ db |->
             CountUnique(
               ZIncrExpire(
                 ZIncrExpire(upd.db,
                             << "ver:errors_by_minute", MON(version), minute >>,
                             upd.error_key, t + KEY_EXPIRY_SECONDS),
                 << "ver:ip:errors_by_minute", MON(version), ip, minute >>,
                 upd.error_key, t + fast_key_expiry_seconds),
               << "ver:unique_errors_by_minute", MON(version), minute >>,
               << "ver:ip:errors_by_minute", MON(version), ip, minute >>,
               upd.error_key, t + KEY_EXPIRY_SECONDS),
           error_key |-> upd.error_key ]

\* A bug that records the monitored occurrence under the plain version.
RecordUnprefixed(caches, db, t, version, minute, status, level, resource, ip, route, module, message) ==
    RecordMinute(update_error_details(caches, db, t + KEY_EXPIRY_SECONDS,
                                      version, status, level, resource,
                                      ip, route, module, message),
                 t, version, minute, ip)

\* models.record_occurrence_during_monitoring; t is the current time.
record_occurrence_during_monitoring(caches, db, t, version, minute, status, level, resource, ip, route, module, message) ==
    RecordMinute(update_error_details(caches, db, t + KEY_EXPIRY_SECONDS,
                                      MON(version), status, level, resource,
                                      ip, route, module, message),
                 t, version, minute, ip)

\* models.record_monitoring_data_received
record_monitoring_data_received(db, t, version, minute) ==
    RExpire(HSet(db, << "ver:seen", MON(version) >>, minute, 1),
            << "ver:seen", MON(version) >>, t + KEY_EXPIRY_SECONDS)

\* models.check_monitoring_data_received
check_monitoring_data_received(db, version, minute) ==
    HasField(db, << "ver:seen", MON(version) >>, minute)

(***************************************************************************)
(* Log scraping (models.py).  A log hour YYYYMMDD_HH is the pair           *)
(* << YYYYMMDD, HH >>; the clock counts seconds from 00:00 of the day of   *)
(* Epoch, a day of the month of the test data.                             *)
(***************************************************************************)
Epoch == [ day |-> 17, month |-> 201411, days_in_month |-> 30 ]

LogHourInt(log_hour) == log_hour[1] * 100 + log_hour[2]

\* String order of two log hours, an absent one being smaller than any.
LogHourGreater(a, b) ==
    \/ b = NoText
    \/ a[1] > b[1]
    \/ a[1] = b[1] /\ a[2] > b[2]

\* YYYYMMDDHH of the time t seconds after the start, moved by days days.
HourIntAt(t, days) ==
    LET day == Epoch.day + (t \div 86400) + days
        hour == (t % 86400) \div 3600
        date == IF day < 1 THEN (Epoch.month - 1) * 100 + 31 + day
                ELSE IF day <= Epoch.days_in_month THEN Epoch.month * 100 + day
                ELSE (Epoch.month + 1) * 100 + (day - Epoch.days_in_month)
    IN  date * 100 + hour

\* models._get_log_hour_int_expiry
get_log_hour_int_expiry(t) == HourIntAt(t, 0 - (KEY_EXPIRY_SECONDS \div 86400))

\* The member of lowest score of a sorted set (ZRANGE 0 0), or NoText.
ZFirst(db, k) ==
    IF Members(db, k) = {} THEN NoText
    ELSE CHOOSE m \in Members(db, k) :
           \A o \in Members(db, k) : db.data[k][m] <= db.data[k][o]

\* The first_seen sorted set: the expired hours go, the hour is added.
FirstSeen(db, first_seen, t, log_hour, is_new) ==
    RExpire(ZAdd(IF is_new THEN db
                 ELSE ZRemRangeByScore(db, first_seen, 0,
                                       get_log_hour_int_expiry(t)),
                 first_seen, LogHourInt(log_hour), log_hour),
            first_seen, t + KEY_EXPIRY_SECONDS)

\* A bug that takes the hour of the last call for the latest hour.
LastSeenOverwrites(db, last_seen, t, log_hour) ==
    RExpire(RSet(db, last_seen, log_hour), last_seen, t + KEY_EXPIRY_SECONDS)

\* The last_seen string is replaced by a greater hour only.
LastSeen(db, last_seen, t, log_hour) ==
    IF LogHourGreater(log_hour,
                      IF Exists(db, last_seen) THEN db.data[last_seen] ELSE NoText)
    THEN RExpire(RSet(db, last_seen, log_hour), last_seen, t + KEY_EXPIRY_SECONDS)
    ELSE db

RecordSeen(db, error_key, t, log_hour, is_new) ==
    [ db |-> LastSeen(FirstSeen(db, << "first_seen", error_key >>, t, log_hour,
                                is_new),
                      << "last_seen", error_key >>, t, log_hour),
      error_key |-> error_key,
      is_new |-> is_new ]

RecordHoursSeen(db, error_key, t, log_hour) ==
    RecordSeen(db, error_key, t, log_hour,
               ZFirst(db, << "first_seen", error_key >>) = NoText)

\* A bug that sets the log hour's field of hours_seen to 1 instead of
\* incrementing it.
HoursSeenOnce(upd, t, version, log_hour) ==
    IF upd.error_key = NoKey
    THEN [ db |-> upd.db, error_key |-> NoKey, is_new |-> FALSE ]
    ELSE RecordHoursSeen(
             RExpire(HSet(upd.db,
                          << "ver:error:hours_seen", version, upd.error_key >>,
                          log_hour, 1),
                     << "ver:error:hours_seen", version, upd.error_key >>,
                     t + KEY_EXPIRY_SECONDS),
             upd.error_key, t, log_hour)

\* record_occurrence_from_errors after _update_error_details.
RecordHour(upd, t, version, log_hour) ==
    IF upd.error_key = NoKey
    THEN [ db |-> upd.db, error_key |-> NoKey, is_new |-> FALSE ]
    ELSE RecordHoursSeen(
             RExpire(HIncrBy(upd.db,
                             << "ver:error:hours_seen", version, upd.error_key >>,
                             log_hour, 1),
                     << "ver:error:hours_seen", version, upd.error_key >>,
                     t + KEY_EXPIRY_SECONDS),
             upd.error_key, t, log_hour)

\* models.record_occurrence_from_errors
record_occurrence_from_errors(caches, db, t, version, log_hour, status, level, resource, ip, route, module, message) ==
    RecordHour(update_error_details(caches, db, t + KEY_EXPIRY_SECONDS,
                                    version, status, level, resource, ip,
                                    route, module, message),
               t, version, log_hour)

(***************************************************************************)
(* Summaries (models.py) and GET /error/<error_key> (server.py)            *)
(***************************************************************************)
RECURSIVE SumCounts(_)
SumCounts(entries) ==
    IF entries = {} THEN 0
    ELSE LET e == CHOOSE x \in entries : TRUE
         IN  e.count + SumCounts(entries \ {e})

\* The versions of the key whose hours_seen hash is gone.
StaleVersions(db, error_key) ==
    { v \in Members(db, << "versions", error_key >>) :
        Fields(db, << "ver:error:hours_seen", v, error_key >>) = << >> }

ByHourAndVersion(db, error_key) ==
    UNION { { [ hour |-> h, version |-> v,
                count |-> db.data[<< "ver:error:hours_seen", v, error_key >>][h] ] :
              h \in Members(db, << "ver:error:hours_seen", v, error_key >>) } :
            v \in Members(db, << "versions", error_key >>) }

SummaryInfo(error_def, db, error_key, by_hour_and_version) ==
    [ error_def |-> error_def,
      versions |-> Fields(db, << "versions", error_key >>),
      first_seen |-> ZFirst(db, << "first_seen", error_key >>),
      last_seen |-> IF Exists(db, << "last_seen", error_key >>)
                    THEN db.data[<< "last_seen", error_key >>]
                    ELSE NoText,
      by_hour_and_version |-> by_hour_and_version,
      count |-> SumCounts(by_hour_and_version) ]

\* get_error_summary_info once the definition is read: without one there
\* is no summary and no write; with one the stale versions are removed
\* from the versions sorted set after it has been read.
Summary(got, db, error_key) ==
    IF got.error_def = NoDef
    THEN [ caches |-> got.caches, db |-> db, found |-> FALSE, info |-> NoDef ]
    ELSE [ caches |-> got.caches,
           db |-> RemoveMembers(db, << "versions", error_key >>,
                                StaleVersions(db, error_key)),
           found |-> TRUE,
           info |-> SummaryInfo(got.error_def, db, error_key,
                                ByHourAndVersion(db, error_key)) ]

\* models.get_error_summary_info
get_error_summary_info(caches, db, error_key) ==
    Summary(get_cached_error_def(caches, db, error_key), db, error_key)

\* models.get_error_extended_information
get_error_extended_information(db, version, error_key) ==
    { [ route |-> route,
        count |-> Score(db, << "ver:error:routes", version, error_key >>, route),
        urls |-> Fields(db, << "ver:error:uris", version, error_key, route >>),
        stacks |->
          { [ count |-> Score(db, << "ver:error:stacks:counts", version,
                                     error_key, route >>, stack_key),
              stack |-> IF HasField(db, << "ver:error:stacks:msgs", version,
                                            error_key >>, stack_key)
                        THEN db.data[<< "ver:error:stacks:msgs", version,
                                        error_key >>][stack_key]
                        ELSE << >> ] :
            stack_key \in Members(db, << "ver:error:stacks:counts", version,
                                         error_key, route >>) } ] :
      route \in Members(db, << "ver:error:routes", version, error_key >>) }

\* The byte order of the first characters of the version names in use:
\* "0".."9" < "M" < "v".
VersionTokens == << "000000-0000-0123456789ab", "1231-0000-0123456789ab",
                    "MON_", "v000", "v001", "v002" >>

TokenRank(tok) == CHOOSE i \in 1..Len(VersionTokens) : VersionTokens[i] = tok

RECURSIVE TextLess(_, _)
TextLess(a, b) ==
    IF b = << >> THEN FALSE
    ELSE IF a = << >> THEN TRUE
    ELSE IF Head(a) = Head(b) THEN TextLess(Tail(a), Tail(b))
    ELSE TokenRank(Head(a)) < TokenRank(Head(b))

\* server._version_sort_key: a version of December sorts before the others.
version_sort_key(version) ==
    IF version # << >> /\ Head(version) = "1231-0000-0123456789ab"
    THEN << "000000-0000-0123456789ab" >> \o version
    ELSE << "1231-0000-0123456789ab" >> \o version

LatestVersion(names) ==
    CHOOSE v \in names : \A w \in names \ {v} :
        TextLess(version_sort_key(w), version_sort_key(v))

\* view_error once the summary is read.
ViewOf(got, error_key) ==
    IF ~got.found
    THEN [ caches |-> got.caches, db |-> got.db, code |-> 404,
           info |-> NoDef, routes |-> {} ]
    ELSE IF DOMAIN got.info.versions = {}
    THEN [ caches |-> got.caches, db |-> got.db, code |-> 500,
           info |-> NoDef, routes |-> {} ]
    ELSE [ caches |-> got.caches, db |-> got.db, code |-> 200,
           info |-> got.info,
           routes |-> get_error_extended_information(
                          got.db, LatestVersion(DOMAIN got.info.versions),
                          error_key) ]

\* server.view_error: code 404 without a definition, 500 when the summary
\* names no version (sorted(...)[-1] of an empty list), else 200.
view_error(caches, db, error_key) ==
    ViewOf(get_error_summary_info(caches, db, error_key), error_key)

(***************************************************************************)
(* POST /monitor and GET /errors/<version_id>/monitor/<minute> (server.py) *)
(***************************************************************************)
\* The body of a request as flask.request.get_json() answers it: None for
\* a body that is not JSON, else an array of some size or an object.
\* fields names the parameters the object holds, nulls those of them that
\* are the JSON null; version, minute and logs are their values.
Json(json, size, fields, nulls, version, minute, logs) ==
    [ json |-> json, size |-> size, fields |-> fields, nulls |-> nulls,
      version |-> version, minute |-> minute, logs |-> logs ]

NoJson == Json("none", 0, {}, {}, << >>, 0, << >>)

JsonArray(size) == Json("array", size, {}, {}, << >>, 0, << >>)

JsonObject(fields, nulls, version, minute, logs) ==
    Json("object", Cardinality(fields), fields, nulls, version, minute, logs)

MonitorBody(version, minute, error_logs) ==
    JsonObject({ "version", "minute", "logs" }, {}, version, minute, error_logs)

\* The parameter checks of server.monitor: 400 for a body that Python
\* takes for false (None, an empty object or array) and for a null
\* parameter, 500 when params['logs'], params['minute'] or
\* params['version'] raises (an array, a missing field), else 200.
monitor_parameters(params) ==
    IF params.json = "none" \/ params.size = 0 THEN 400
    ELSE IF \/ params.json # "object"
            \/ ~({ "logs", "minute", "version" } \subseteq params.fields)
    THEN 500
    ELSE IF { "logs", "minute", "version" } \cap params.nulls # {} THEN 400
    ELSE 200

\* The fields the loop of server.monitor reads from a log record; a record
\* without one of them (log.fields names those it has) raises KeyError
\* before it is recorded.
LogFields ==
    { "status", "level", "resource", "ip", "route", "module_id", "message" }

WellFormed(log) == LogFields \subseteq log.fields

LoopCompletes(error_logs) ==
    \A i \in 1..Len(error_logs) : WellFormed(error_logs[i])

\* server.monitor with well-formed parameters: the logs of the batch are
\* recorded one after the other up to the first record that raises, and
\* the cell is marked as received when none did.
RECURSIVE RecordLogs(_, _, _, _, _, _)
RECURSIVE RecordRest(_, _, _, _, _, _, _)
RecordRest(caches, db, res, t, version, minute, error_logs) ==
    IF res.error_key = NoKey
    THEN RecordLogs(caches, db, t, version, minute, error_logs)
    ELSE RecordLogs(caches, res.db, t, version, minute, error_logs)

RecordLog(caches, db, t, version, minute, log) ==
    record_occurrence_during_monitoring(
        caches, db, t, version, minute, ToString(log.status),
        ToString(log.level), log.resource, log.ip, log.route, log.module_id,
        log.message)

RecordLogs(caches, db, t, version, minute, error_logs) ==
    IF error_logs = << >> THEN db
    ELSE IF ~WellFormed(Head(error_logs)) THEN db
    ELSE RecordRest(caches, db,
                    RecordLog(caches, db, t, version, minute, Head(error_logs)),
                    t, version, minute, Tail(error_logs))

\* A bug that marks the cell as received only when the batch holds logs.
MonitorSeenWithLogs(caches, db, t, version, minute, error_logs) ==
    IF LoopCompletes(error_logs) /\ error_logs # << >>
    THEN record_monitoring_data_received(
             RecordLogs(caches, db, t, version, minute, error_logs),
             t, version, minute)
    ELSE RecordLogs(caches, db, t, version, minute, error_logs)

monitor(caches, db, t, version, minute, error_logs) ==
    IF LoopCompletes(error_logs)
    THEN record_monitoring_data_received(
             RecordLogs(caches, db, t, version, minute, error_logs),
             t, version, minute)
    ELSE RecordLogs(caches, db, t, version, minute, error_logs)

\* models.get_monitoring_errors: the caches after the definitions were
\* read and the pairs of definition and count, the keys without
\* definition left out.
RECURSIVE ReadDefs(_, _, _)
RECURSIVE ReadDefsOf(_, _, _, _)
AddDef(k, error_def, rest) ==
    [ caches |-> rest.caches, defs |-> Put(rest.defs, k, error_def) ]

ReadDefsOf(k, got, db, keys) ==
    AddDef(k, got.error_def, ReadDefs(got.caches, db, keys))

ReadDef(caches, db, k, keys) ==
    ReadDefsOf(k, get_cached_error_def(caches, db, k), db, keys \ {k})

ReadDefs(caches, db, keys) ==
    IF keys = {} THEN [ caches |-> caches, defs |-> << >> ]
    ELSE ReadDef(caches, db, CHOOSE x \in keys : TRUE, keys)

MonitoringErrors(read, db, unique) ==
    [ caches |-> read.caches,
      errors |-> { [ error |-> read.defs[k], count |-> Score(db, unique, k) ] :
                   k \in { x \in Members(db, unique) : read.defs[x] # NoDef } } ]

get_monitoring_errors(caches, db, version, minute) ==
    MonitoringErrors(
        ReadDefs(caches, db,
                 Members(db, << "ver:unique_errors_by_minute", MON(version),
                                minute >>)),
        db, << "ver:unique_errors_by_minute", MON(version), minute >>)

\* server._ERROR_BLACKLIST_THRESHOLDS
ERROR_BLACKLIST_THRESHOLDS ==
    { [ error |-> Words(<< <<"Exceeded">>, <<"soft">>, <<"private">>, <<"memory">>,
                           <<"limit">> >>), threshold |-> 100 ],
      [ error |-> Words(<< <<"Request">>, <<"was">>, <<"aborted">>, <<"after">>,
                           <<"waiting">>, <<"too">>, <<"long">> >>), threshold |-> 800 ],
      [ error |-> Words(<< <<"ApplicationError:">>, <<"4">>, <<"Unknown">>,
                           <<"error">> >>), threshold |-> 100 ],
      [ error |-> Words(<< <<"Process">>, <<"terminated">>, <<"because">>, <<"the">>,
                           <<"request">>, <<"deadline">>, <<"was">>, <<"exceeded">> >>),
        threshold |-> 100 ],
      [ error |-> Words(<< <<"DeadlineExceededError:">>, <<"The">>, <<"overall">>,
                           <<"deadline">>, <<"for">>, <<"responding">> >>),
        threshold |-> 50 ] }

\* The regular expression of the blacklist: a memcache chunk failure for
\* any one word followed by user_models.get_students_data.
ChunkRe ==
    Words(<< <<"google.appengine.api.memcache">>, <<"set">>, <<"failed">>, <<"on">>,
             <<"chunk">>, <<"for">> >>) \o << " " >>
ChunkReTail == << " ", "user_models.get_students_data" >>
ChunkReThreshold == 100

MatchesChunkRe(logline) ==
    \E i \in 1..Len(logline) :
        /\ StartsWith(SubSeq(logline, i, Len(logline)), ChunkRe)
        /\ LET rest == SubSeq(logline, i + Len(ChunkRe), Len(logline))
           IN  StartsWith(SubSeq(rest, Len(TakeUntil(rest, { " " })) + 1, Len(rest)),
                          ChunkReTail)

\* server._matches_blacklist
matches_blacklist(logline, count) ==
    \/ \E b \in ERROR_BLACKLIST_THRESHOLDS :
          Contains(logline, b.error) /\ count <= b.threshold
    \/ MatchesChunkRe(logline) /\ count <= ChunkReThreshold

(***************************************************************************)
(* server.poisson_cdf in fixed point.  The terms mean^i / i! are kept as   *)
(* integers scaled by PoissonScale; the common factor exp(-mean) is the    *)
(* inverse of the sum of all terms, so the probability is the sum of the   *)
(* terms up to actual over the sum of all.  mean is the fraction num/den.  *)
(***************************************************************************)
PoissonScale == 100000

RECURSIVE PoissonSum(_, _, _, _, _)
PoissonSum(p, i, upto, num, den) ==
    IF p = 0 \/ (upto >= 0 /\ i > upto) THEN 0
    ELSE p + PoissonSum((p * num) \div (den * (i + 1)), i + 1, upto, num, den)

\* Whether poisson_cdf(actual, num / den) >= odds / (odds + 1).
poisson_cdf_at_least(actual, num, den, odds) ==
    LET cum_prob == PoissonSum(PoissonScale, 0, actual, num, den)
        all == PoissonSum(PoissonScale, 0, 0 - 1, num, den)
    IN  /\ actual >= 0
        /\ all - cum_prob <= cum_prob \div odds

RECURSIVE SumSeq(_)
SumSeq(xs) == IF xs = << >> THEN 0 ELSE Head(xs) + SumSeq(Tail(xs))

\* A bug that takes an absent history for a history without occurrence.
ElevatedOverNothing(historical_counts, recent_count, odds) ==
    LET total == SumSeq(historical_counts)
        n == IF historical_counts = << >> THEN 1 ELSE Len(historical_counts)
        num == IF total < n THEN n ELSE total
    IN  [ expected_num |-> num, expected_den |-> n,
          elevated |-> /\ recent_count * n >= total
                       /\ poisson_cdf_at_least(recent_count, num, n, odds) ]

\* server._count_is_elevated_probability: the expected count as a fraction
\* and whether the probability reaches odds / (odds + 1).
count_is_elevated_probability(historical_counts, recent_count, odds) ==
    LET total == SumSeq(historical_counts)
        n == Len(historical_counts)
    IN  IF n = 0
        THEN [ expected_num |-> 0, expected_den |-> 1, elevated |-> FALSE ]
        ELSE IF recent_count * n < total
        THEN [ expected_num |-> total, expected_den |-> n, elevated |-> FALSE ]
        ELSE LET num == IF total < n THEN n ELSE total
             IN  [ expected_num |-> num, expected_den |-> n,
                   elevated |-> poisson_cdf_at_least(recent_count, num, n, odds) ]

\* server.poisson_cdf as the fraction of the sum of the terms up to actual
\* over the sum of all terms.
poisson_cdf(actual, num, den) ==
    IF actual < 0 THEN [ num |-> 0, den |-> 1 ]
    ELSE [ num |-> PoissonSum(PoissonScale, 0, actual, num, den),
           den |-> PoissonSum(PoissonScale, 0, 0 - 1, num, den) ]

Baseline(expected_num, expected_den, probability) ==
    [ expected_num |-> expected_num, expected_den |-> expected_den,
      probability |-> probability ]

\* A bug that leaves an expected count below 1 as it is.
BaselineUnfloored(total, n, recent_count) ==
    IF n = 0 THEN Baseline(0, 1, [ num |-> 0, den |-> 1 ])
    ELSE IF recent_count * n < total
    THEN Baseline(total, n, [ num |-> 0, den |-> 1 ])
    ELSE Baseline(total, n, poisson_cdf(recent_count, total, n))

\* _count_is_elevated_probability for a history of n counts that sum up to
\* total: the expected count as the fraction expected_num / expected_den
\* and the probability.
BaselineOf(total, n, recent_count) ==
    IF n = 0 THEN Baseline(0, 1, [ num |-> 0, den |-> 1 ])
    ELSE IF recent_count * n < total
    THEN Baseline(total, n, [ num |-> 0, den |-> 1 ])
    ELSE Baseline(IF total < n THEN n ELSE total, n,
                  poisson_cdf(recent_count, IF total < n THEN n ELSE total, n))

\* server._count_is_elevated_probability with the probability itself.
elevated_probability(historical_counts, recent_count) ==
    BaselineOf(SumSeq(historical_counts), Len(historical_counts), recent_count)

\* The counts of the minute in each of the versions (a sequence), keyed by
\* the key field of the definitions, and the caches after reading them.
CountsByKey(errors) ==
    [ k \in { e.error.key : e \in errors } |->
        (CHOOSE e \in errors : e.error.key = k).count ]

AddCounts(errors, rest) ==
    [ caches |-> rest.caches, counts |-> << CountsByKey(errors) >> \o rest.counts ]

RECURSIVE VersionCounts(_, _, _, _)
RECURSIVE VersionCountsOf(_, _, _, _)
VersionCountsOf(got, db, versions, minute) ==
    AddCounts(got.errors, VersionCounts(got.caches, db, versions, minute))

VersionCounts(caches, db, versions, minute) ==
    IF versions = << >> THEN [ caches |-> caches, counts |-> << >> ]
    ELSE VersionCountsOf(
             get_monitoring_errors(caches, db, Head(versions), minute),
             db, Tail(versions), minute)

SignificanceOdds == 1999

\* The error is not of the blacklist, its count is elevated and not 1.
Candidate(e, p) ==
    /\ ~matches_blacklist(e.error.title, e.count)
    /\ p.elevated
    /\ e.count # 1

\* One of the versions, plain or with the monitoring prefix, is among the
\* versions of the summary.
SeenBefore(versions, orig_versions) ==
    \E i \in 1..Len(orig_versions) :
        \/ orig_versions[i] \in DOMAIN versions
        \/ MON(orig_versions[i]) \in DOMAIN versions

Report(e, p, minute) ==
    [ key |-> e.error.key, status |-> e.error.status,
      level |-> ERROR_LEVELS(e.error.level), message |-> e.error.title,
      minute |-> minute, monitor_count |-> e.count,
      expected_num |-> p.expected_num, expected_den |-> p.expected_den ]

AddSignificant(reported, e, p, minute, rest) ==
    [ caches |-> rest.caches, db |-> rest.db,
      significant |-> IF reported
                      THEN rest.significant \cup { Report(e, p, minute) }
                      ELSE rest.significant ]

\* The loop of monitor_results over the errors of the minute: the caches,
\* the database and the significant errors after it.
RECURSIVE SignificantErrors(_, _, _, _, _, _)
RECURSIVE SignificantInfrequent(_, _, _, _, _, _, _)
RECURSIVE SignificantWith(_, _, _, _, _, _, _, _)

\* An elevated count below 5: the summary is read, and the error is
\* reported when none of the versions has seen it.
SignificantInfrequent(summary, e, p, errors, counts, orig_versions, minute) ==
    AddSignificant(~SeenBefore(summary.info.versions, orig_versions), e, p,
                   minute,
                   SignificantErrors(summary.caches, summary.db, errors, counts,
                                     orig_versions, minute))

SignificantWith(caches, db, e, p, errors, counts, orig_versions, minute) ==
    IF Candidate(e, p) /\ e.count < 5
    THEN SignificantInfrequent(get_error_summary_info(caches, db, e.error.key),
                               e, p, errors \ {e}, counts, orig_versions,
                               minute)
    ELSE AddSignificant(Candidate(e, p), e, p, minute,
                        SignificantErrors(caches, db, errors \ {e}, counts,
                                          orig_versions, minute))

SignificantError(caches, db, e, errors, counts, orig_versions, minute) ==
    SignificantWith(
        caches, db, e,
        count_is_elevated_probability(
            [ i \in 1..Len(counts) |-> Count(counts[i], e.error.key) ],
            e.count, SignificanceOdds),
        errors, counts, orig_versions, minute)

SignificantErrors(caches, db, errors, counts, orig_versions, minute) ==
    IF errors = {} THEN [ caches |-> caches, db |-> db, significant |-> {} ]
    ELSE SignificantError(
             caches, db,
             CHOOSE x \in errors : \A y \in errors : y.count <= x.count,
             errors, counts, orig_versions, minute)

ResultsOf(got, db, counts, orig_versions, minute) ==
    SignificantErrors(got.caches, db, got.errors, counts, orig_versions, minute)

ResultsWithHistory(history_counts, db, version_id, minute, orig_versions) ==
    ResultsOf(get_monitoring_errors(history_counts.caches, db, version_id, minute),
              db, history_counts.counts, orig_versions, minute)

\* A bug that compares with the versions that have posted nothing too.
MonitorResultsUnverified(caches, db, version_id, minute, orig_versions) ==
    ResultsWithHistory(VersionCounts(caches, db, orig_versions, minute),
                       db, version_id, minute, orig_versions)

\* server.monitor_results for a non-empty verify_versions parameter.
monitor_results(caches, db, version_id, minute, orig_versions) ==
    ResultsWithHistory(
        VersionCounts(caches, db,
                      SelectSeq(orig_versions,
                                LAMBDA v : check_monitoring_data_received(db, v, minute)),
                      minute),
        db, version_id, minute, orig_versions)

\* server.view_version_errors: the summaries of the keys of the version
\* that have a definition, read one after the other.
AddSummary(got, rest) ==
    [ caches |-> rest.caches, db |-> rest.db,
      errors |-> IF got.found THEN rest.errors \cup { got.info } ELSE rest.errors ]

RECURSIVE Summaries(_, _, _)
RECURSIVE SummariesOf(_, _)
SummariesOf(got, keys) == AddSummary(got, Summaries(got.caches, got.db, keys))

SummaryOfOne(caches, db, k, keys) ==
    SummariesOf(get_error_summary_info(caches, db, k), keys \ {k})

Summaries(caches, db, keys) ==
    IF keys = {} THEN [ caches |-> caches, db |-> db, errors |-> {} ]
    ELSE SummaryOfOne(caches, db, CHOOSE x \in keys : TRUE, keys)

get_error_keys_by_version(db, version) == Members(db, << "ver:errors", version >>)

view_version_errors(caches, db, version) ==
    Summaries(caches, db, get_error_keys_by_version(db, version))

(***************************************************************************)
(* The log records of the model.                                           *)
(***************************************************************************)
TitleDirective(n) ==
    Words(<< <<"Error">>, <<"while">>, <<"parsing">>, <<"directive">>, n >>)
TitleFoo ==
    Words(<< <<"Error">>, <<"while">>, <<"parsing">>, <<"foo">>, <<"bar">>, <<"baz">> >>)
TitleOther ==
    Words(<< <<"Other">>, <<"thing">>, <<"broke">>, <<"foo">>, <<"bar">>, <<"baz">> >>)
TitleNoAttribute ==
    Words(<< <<"Error">>, <<"while">>, <<"parsing">>, <<"object">>, <<"has">>,
             <<"no">>, <<"attribute">>, <<"directive">>, <<"1">> >>)
TitleSignature ==
    Words(<< <<"Error">>, <<"in">>, <<"signature">>, <<"for">>, <<"parsing">>,
             <<"directive">>, <<"1">> >>)
TitleMemcache(n) ==
    Words(<< <<"Memcache">>, <<"set">>, <<"failed">>, <<"for">>, << "foo", n >> >>)

FrameLine ==
    << "  File ", "/base/1029-2305-f48a12e2b9ba.379/", "api/errors.py",
       ", line ", "214", ", in ", "parse_file" >>
TruncatedFrameLine == << "  File ", "/base/1029-2305-f48a12e2b9ba.379/", "api/err" >>

Log(status, resource, ip, message) ==
    [ status |-> status, level |-> 4, resource |-> resource, ip |-> ip,
      route |-> "/test", module_id |-> "default", message |-> message,
      fields |-> LogFields ]

LogDirective1 == Log(500, << "/test" >>, "1.1.1.1", << TitleDirective(<<"1">>) >>)
LogDirective22 ==
    Log(500, << "/test" >>, "2.2.2.2", << TitleDirective(<<"2", "2">>) >>)
LogPromoted ==
    Log(500, << "/test", "?", "_=", "1", "3", "&", "x" >>, "1.1.1.1",
        << promotion_prefix \o TitleDirective(<<"3">>), << "Traceback" >>,
           FrameLine, TruncatedFrameLine >>)
LogBlacklisted ==
    Log(500, << "/api", "/internal", "/translate", "/lint_poentry", "/x" >>,
        "1.1.1.1", << TitleDirective(<<"1">>) >>)
LogFoo == Log(500, << "/test" >>, "1.1.1.1", << TitleFoo >>)
LogOther == Log(500, << "/test" >>, "1.1.1.1", << TitleOther >>)
LogNoAttribute == Log(500, << "/test" >>, "1.1.1.1", << TitleNoAttribute >>)
LogSignature == Log(500, << "/test" >>, "1.1.1.1", << TitleSignature >>)
LogMemcache404 == Log(404, << "/test" >>, "1.1.1.1", << TitleMemcache("2") >>)
LogMemcache2 == Log(500, << "/test" >>, "1.1.1.1", << TitleMemcache("2") >>)
LogMemcache1 == Log(500, << "/test" >>, "2.2.2.2", << TitleMemcache("1") >>)

\* Two titles whose digits are among the first and the last three words.
TitleShard(n, m) ==
    Words(<< <<"Timeout">>, n, <<"on">>, <<"shard">>, m >>)
LogShard57 == Log(500, << "/test" >>, "1.1.1.1", << TitleShard(<<"5">>, <<"7">>) >>)
LogShard123 ==
    Log(500, << "/test" >>, "2.2.2.2", << TitleShard(<<"1", "2">>, <<"3">>) >>)

\* A title of server._ERROR_BLACKLIST_THRESHOLDS.
TitleMemoryLimit(n) ==
    Words(<< <<"Exceeded">>, <<"soft">>, <<"private">>, <<"memory">>, <<"limit">>,
             <<"of">>, n, <<"MB">> >>)

\* The inputs of one behaviour: the log records that may arrive, the
\* versions and the log hours.
Scenarios ==
    { [ name |-> "digits",
        logs |-> { LogDirective1, LogDirective22, LogPromoted, LogBlacklisted },
        versions |-> { << "v001" >> },
        hours |-> { << 20141117, 4 >> } ],
      [ name |-> "shards",
        logs |-> { LogShard57, LogShard123 },
        versions |-> { << "v001" >> },
        hours |-> { << 20141117, 4 >> } ],
      [ name |-> "chain",
        logs |-> { LogDirective1, LogFoo, LogOther },
        versions |-> { << "v001" >> },
        hours |-> { << 20141117, 4 >> } ],
      [ name |-> "special",
        logs |-> { LogDirective1, LogNoAttribute, LogSignature },
        versions |-> { << "v001" >> },
        hours |-> { << 20141117, 4 >> } ],
      [ name |-> "memcache",
        logs |-> { LogMemcache404, LogMemcache2, LogMemcache1 },
        versions |-> { << "v001" >> },
        hours |-> { << 20141117, 4 >> } ] }

Minutes == { 0 }

\* The batches of POST /monitor: six occurrences of one error from one
\* address (the batch of test_monitor_logs) or from six addresses, and
\* two occurrences from two addresses.
Ips == << "1.1.1.1", "2.2.2.2", "3.3.3.3", "4.4.4.4", "5.5.5.5", "6.6.6.6" >>
NumberWords == << <<"1">>, <<"2">>, <<"3">>, <<"4">>, <<"5">>, <<"6">> >>
BatchSize == Len(Ips)

BatchEmpty == << >>
BatchSameIp ==
    [ i \in 1..BatchSize |->
        Log(500, << "/test" >>, Ips[1], << TitleDirective(NumberWords[i]) >>) ]
BatchDistinctIps ==
    [ i \in 1..BatchSize |->
        Log(500, << "/test" >>, Ips[i], << TitleDirective(NumberWords[i]) >>) ]
BatchMemoryLimit ==
    [ i \in 1..BatchSize |->
        Log(500, << "/test" >>, Ips[i], << TitleMemoryLimit(NumberWords[i]) >>) ]
BatchTwoIps == SubSeq(BatchDistinctIps, 1, 2)

\* The inputs of one behaviour of the HTTP endpoints.
MonitorScenarios ==
    { [ name |-> "elevation",
        batches |-> { BatchEmpty, BatchSameIp, BatchDistinctIps, BatchMemoryLimit,
                      BatchTwoIps },
        logs |-> {},
        versions |-> { << "v000" >>, << "v001" >> },
        verify |-> { << <<"v000">> >>, << <<"v000">>, <<"v001">> >> },
        hours |-> { << 20141117, 4 >> } ],
      [ name |-> "isolation",
        batches |-> { << LogDirective1 >>, << LogOther, LogBlacklisted >> },
        logs |-> { LogDirective1, LogOther },
        versions |-> { << "v001" >>, << "MON_", "v001" >> },
        verify |-> { << <<"v001">> >> },
        hours |-> { << 20141117, 4 >> } ] }

\* A record without its ip field.
LogNoIp == [ LogDirective22 EXCEPT !.fields = LogFields \ { "ip" } ]

BatchChain == << LogDirective1, LogOther, LogFoo >>
BatchMalformed == << LogDirective1, LogNoIp, LogOther >>
BatchRepeat == << LogDirective1, LogDirective22, LogDirective1 >>
BatchBlacklisted == << LogOther, LogBlacklisted >>

\* The bodies posted to /monitor: bodies that are not JSON, not an object,
\* empty, without one of the parameters or with a null one, and the
\* batches for the cells of one version and two minutes.
PostScenarios ==
    { [ name |-> "bodies",
        versions |-> { << "v001" >> },
        minutes |-> { 0, 1 },
        bodies |->
            { NoJson, JsonArray(0), JsonArray(1),
              JsonObject({}, {}, << >>, 0, << >>),
              JsonObject({ "version", "minute" }, {}, << "v001" >>, 0, << >>),
              JsonObject({ "version", "logs" }, {}, << "v001" >>, 0, BatchChain),
              JsonObject({ "minute", "logs" }, {}, << >>, 0, BatchChain),
              JsonObject({ "version", "minute", "logs" }, { "logs" },
                         << "v001" >>, 0, << >>) }
            \cup { MonitorBody(<< "v001" >>, 0, b) :
                   b \in { BatchEmpty, BatchChain, BatchMalformed,
                           BatchRepeat } }
            \cup { MonitorBody(<< "v001" >>, 1, b) :
                   b \in { BatchEmpty, BatchRepeat, BatchBlacklisted } } ] }

DefOf(log) == ParseErrorDef(log.message, ToString(log.status), ToString(log.level))

(***************************************************************************)
(* State.                                                                  *)
(***************************************************************************)
VARIABLES
    r,              \* the Redis database: data and expiry times
    caches,         \* _error_def_cache and _error_id_cache
    now,            \* seconds since the start
    scenario,       \* the inputs of this behaviour
    last,           \* the last operation, its arguments and its result
    history,        \* what the calls so far resolved to
    counters        \* how many records, reads and ticks were made

vars == << r, caches, now, scenario, last, history, counters >>

\* What the last call of the ingestor did (see logs_from_bigquery and
\* send_alerts_for_errors).
NoIngest ==
    [ responses |-> << >>, fails_at |-> 0, marked |-> FALSE, outcome |-> "none",
      attempts |-> 0, rows |-> << >>, handed |-> 0, new |-> {},
      continuing |-> {}, blacklist |-> {} ]

NoRun == [ date |-> 0, day |-> << >>, outcome |-> "none", hours |-> << >> ]

\* The request counts of the last call (see record_occurrences_from_requests
\* and get_hourly_responses_count).
NoRequest ==
    [ route |-> "", status |-> 0, num_seen |-> 0,
      series |-> [ dates_seen |-> << >>, hourly_responses |-> << >> ] ]

\* The handlers that run record_occurrence_during_monitoring at the same
\* time: where each one is in the function (pc), its arguments, the key
\* _update_error_details answered and the score it read.
NumHandlers == 2

NoHandler ==
    [ pc |-> "idle", version |-> NoText, minute |-> 0,
      log |-> Log(0, << >>, "", << >>), error_key |-> NoKey,
      num_ip_errors |-> 0 ]

\* A call of multiprocess_map: where the caller is (pc), its arguments, the
\* two queues, the worker processes, how many arguments and sentinels were
\* put, the outputs collected (res) and the list returned.
NoMap ==
    [ pc |-> "idle", args_list |-> << >>, num_processes |-> 0,
      input_queue |-> << >>, output_queue |-> << >>, processes |-> << >>,
      sent |-> 0, stops |-> 0, res |-> << >>, returned |-> << >> ]

\* The arguments and the answer of the last call of
\* _count_is_elevated_probability.
NoBaseline ==
    [ historical_counts |-> << >>, recent_count |-> 0,
      expected_num |-> 0, expected_den |-> 1,
      probability |-> [ num |-> 0, den |-> 1 ] ]

\* The detectors' answers, the scores and the report of the last call of
\* _get_recent_anomalies.
NoAnomalies == [ detectors |-> << >>, routes |-> << >>, scores |-> << >>, report |-> << >> ]

NoLast ==
    [ op |-> "none", version |-> NoText, minute |-> 0, log_hour |-> NoText,
      log |-> NoDef, params |-> NoJson, error_key |-> NoKey, code |-> 0,
      error_def |-> NoDef,
      orig_versions |-> << >>, significant |-> {}, listed |-> {},
      ingest |-> NoIngest, run |-> NoRun, request |-> NoRequest,
      anomalies |-> NoAnomalies, baseline |-> NoBaseline,
      handlers |-> [ i \in 1..NumHandlers |-> NoHandler ], map |-> NoMap ]

\* history.occ counts the calls by << kind of call, version, resolved key >>,
\* history.latest and history.creator keep per key the title, status and
\* level of the last occurrence and the definition that made the payload,
\* history.posts is the sequence of the batches posted to /monitor,
\* history.cells counts the calls by << kind of call, version, minute or
\* log hour, client address, resolved key >>,
\* history.requests keeps per << route, status, log hour >> the counts of
\* the calls of record_occurrences_from_requests in their order,
\* history.marks the log hours of the calls of record_log_data_received
\* that were made outside the ingestor, in their order.
NoHistory ==
    [ occ |-> << >>, latest |-> << >>, creator |-> << >>, posts |-> << >>,
      cells |-> << >>, requests |-> << >>, marks |-> << >> ]

InitWith(scenarios) ==
    /\ r = EmptyDb
    /\ caches = EmptyCaches
    /\ now = 0
    /\ scenario \in scenarios
    /\ last = NoLast
    /\ history = NoHistory
    /\ counters = [ records |-> 0, reads |-> 0, ticks |-> 0 ]

Init == InitWith(Scenarios)

\* Whether create_or_update_error writes the definition itself (a new
\* class, or a class whose payload has expired) instead of updating the
\* stored payload.
WritesFound(db, found) == found = NoKey \/ ~Exists(db, << "error", found >>)

WritesDefinition(cs, db, error_def) ==
    WritesFound(db, find_error_by_def(cs, db, error_def))

\* The history h after a call of the kind for the version and the slot
\* (the minute or the log hour) from the address ip that resolved the
\* definition to error_key; writes tells whether the call wrote the
\* definition itself.
Recorded(h, writes, kind, version, slot, ip, error_def, error_key) ==
    IF error_key = NoKey THEN h
    ELSE [ h EXCEPT
             !.occ = Put(h.occ, << kind, version, error_key >>,
                         Count(h.occ, << kind, version, error_key >>) + 1),
             !.cells = Put(h.cells, << kind, version, slot, ip, error_key >>,
                           Count(h.cells, << kind, version, slot, ip,
                                              error_key >>) + 1),
             !.latest = Put(h.latest, error_key,
                            [ title |-> error_def.title,
                              status |-> error_def.status,
                              level |-> error_def.level ]),
             !.creator = IF writes
                         THEN Put(h.creator, error_key,
                                  [ error_def EXCEPT !.key = error_key ])
                         ELSE h.creator ]

(***************************************************************************)
(* Operations.                                                             *)
(***************************************************************************)
\* The step of a record call that answered res.
Record(op, kind, version, minute, log_hour, log, res, writes) ==
    /\ counters.records < MaxRecords
    /\ r' = res.db
    /\ last' = [ NoLast EXCEPT !.op = op, !.version = version,
                               !.minute = minute, !.log_hour = log_hour,
                               !.log = log, !.error_key = res.error_key ]
    /\ history' = Recorded(history, writes, kind, version,
                           IF kind = "monitor" THEN minute ELSE log_hour,
                           log.ip, DefOf(log), res.error_key)
    /\ counters' = [ counters EXCEPT !.records = @ + 1 ]
    /\ UNCHANGED << caches, now, scenario >>

RecordDuringMonitoring(version, minute, log) ==
    Record("record_occurrence_during_monitoring", "monitor", version, minute,
           NoText, log,
           record_occurrence_during_monitoring(
               caches, r, now, version, minute, ToString(log.status),
               ToString(log.level), log.resource, log.ip, log.route,
               log.module_id, log.message),
           WritesDefinition(caches, r, DefOf(log)))

RecordFromErrors(version, log_hour, log) ==
    Record("record_occurrence_from_errors", "errors", version, 0, log_hour, log,
           record_occurrence_from_errors(
               caches, r, now, version, log_hour, ToString(log.status),
               ToString(log.level), log.resource, log.ip, log.route,
               log.module_id, log.message),
           WritesDefinition(caches, r, DefOf(log)))

Viewed(res, error_key) ==
    /\ counters.reads < MaxReads
    /\ r' = res.db
    /\ caches' = res.caches
    /\ last' = [ NoLast EXCEPT
                   !.op = "view_error", !.error_key = error_key,
                   !.code = res.code,
                   !.error_def = IF res.code = 200 THEN res.info.error_def
                                 ELSE NoDef ]
    /\ counters' = [ counters EXCEPT !.reads = @ + 1 ]
    /\ UNCHANGED << now, scenario, history >>

\* GET /error/<error_key>
ViewError(error_key) == Viewed(view_error(caches, r, error_key), error_key)

\* Time passes; the keys whose time has come expire.
Expired(db, t) ==
    [ data |-> [ k \in { x \in DOMAIN db.data :
                           x \notin DOMAIN db.ttl \/ db.ttl[x] > t } |->
                   db.data[k] ],
      ttl |-> [ k \in { x \in DOMAIN db.ttl : db.ttl[x] > t } |-> db.ttl[k] ] ]

Tick(seconds) ==
    /\ counters.ticks < MaxTicks
    /\ now' = now + seconds
    /\ r' = Expired(r, now + seconds)
    /\ last' = [ NoLast EXCEPT !.op = "tick" ]
    /\ counters' = [ counters EXCEPT !.ticks = @ + 1 ]
    /\ UNCHANGED << caches, scenario, history >>

\* The history after the logs of a batch were recorded one after the
\* other, and the keys they resolved to.
RECURSIVE PostedLogs(_, _, _, _, _, _, _)
RECURSIVE PostedRest(_, _, _, _, _, _, _, _, _)
AddKey(error_key, rest) ==
    [ history |-> rest.history, keys |-> << error_key >> \o rest.keys ]

PostedRest(h, cs, db, res, writes, t, version, minute, error_logs) ==
    IF res.error_key = NoKey
    THEN AddKey(NoKey, PostedLogs(h, cs, db, t, version, minute,
                                  Tail(error_logs)))
    ELSE AddKey(res.error_key,
                PostedLogs(Recorded(h, writes, "monitor", version, minute,
                                    Head(error_logs).ip,
                                    DefOf(Head(error_logs)), res.error_key),
                           cs, res.db, t, version, minute, Tail(error_logs)))

PostedLogs(h, cs, db, t, version, minute, error_logs) ==
    IF error_logs = << >> THEN [ history |-> h, keys |-> << >> ]
    ELSE IF ~WellFormed(Head(error_logs)) THEN [ history |-> h, keys |-> << >> ]
    ELSE PostedRest(h, cs, db,
                    RecordLog(cs, db, t, version, minute, Head(error_logs)),
                    WritesDefinition(cs, db, DefOf(Head(error_logs))),
                    t, version, minute, error_logs)

Posted(version, minute, error_logs, posted, db) ==
    /\ counters.records < MaxRecords
    /\ r' = db
    /\ last' = [ NoLast EXCEPT
                   !.op = "monitor", !.version = version, !.minute = minute,
                   !.params = MonitorBody(version, minute, error_logs),
                   !.code = IF LoopCompletes(error_logs) THEN 200 ELSE 500 ]
    /\ history' = [ posted.history EXCEPT
                      !.posts = Append(@, [ version |-> version,
                                            minute |-> minute,
                                            keys |-> posted.keys ]) ]
    /\ counters' = [ counters EXCEPT !.records = @ + 1 ]
    /\ UNCHANGED << caches, now, scenario >>

\* POST /monitor with a version, a minute and logs.
Monitor(version, minute, error_logs) ==
    Posted(version, minute, error_logs,
           PostedLogs(history, caches, r, now, version, minute, error_logs),
           monitor(caches, r, now, version, minute, error_logs))

\* POST /monitor answered before anything was recorded.
Rejected(params, code) ==
    /\ counters.records < MaxRecords
    /\ last' = [ NoLast EXCEPT !.op = "monitor", !.params = params,
                               !.code = code ]
    /\ counters' = [ counters EXCEPT !.records = @ + 1 ]
    /\ UNCHANGED << r, caches, now, scenario, history >>

\* POST /monitor with any body.
PostMonitor(params) ==
    IF monitor_parameters(params) = 200
    THEN Monitor(params.version, params.minute, params.logs)
    ELSE Rejected(params, monitor_parameters(params))

Reported(version_id, minute, orig_versions, res) ==
    /\ counters.reads < MaxReads
    /\ r' = res.db
    /\ caches' = res.caches
    /\ last' = [ NoLast EXCEPT !.op = "monitor_results",
                               !.version = version_id, !.minute = minute,
                               !.orig_versions = orig_versions,
                               !.code = 200,
                               !.significant = res.significant ]
    /\ counters' = [ counters EXCEPT !.reads = @ + 1 ]
    /\ UNCHANGED << now, scenario, history >>

\* GET /errors/<version_id>/monitor/<minute>?verify_versions=...
MonitorResults(version_id, minute, orig_versions) ==
    Reported(version_id, minute, orig_versions,
             monitor_results(caches, r, version_id, minute, orig_versions))

Listed(version, res) ==
    /\ counters.reads < MaxReads
    /\ r' = res.db
    /\ caches' = res.caches
    /\ last' = [ NoLast EXCEPT !.op = "view_version_errors",
                               !.version = version, !.code = 200,
                               !.listed = res.errors ]
    /\ counters' = [ counters EXCEPT !.reads = @ + 1 ]
    /\ UNCHANGED << now, scenario, history >>

\* GET /version_errors/<version>
ViewVersionErrors(version) ==
    Listed(version, view_version_errors(caches, r, version))

ErrorKeys == { DefOf(log).key : log \in scenario.logs } \cup { << "GARBAGE" >> }

Next ==
    \/ \E version \in scenario.versions, minute \in Minutes, log \in scenario.logs :
          RecordDuringMonitoring(version, minute, log)
    \/ \E version \in scenario.versions, log_hour \in scenario.hours,
          log \in scenario.logs :
          RecordFromErrors(version, log_hour, log)
    \/ \E error_key \in ErrorKeys : ViewError(error_key)
    \/ \E seconds \in { fast_key_expiry_seconds, KEY_EXPIRY_SECONDS } : Tick(seconds)

Spec == Init /\ [][Next]_vars

\* The record calls alone: no read and no expiry.
NextRecord ==
    \/ \E version \in scenario.versions, minute \in Minutes, log \in scenario.logs :
          RecordDuringMonitoring(version, minute, log)
    \/ \E version \in scenario.versions, log_hour \in scenario.hours,
          log \in scenario.logs :
          RecordFromErrors(version, log_hour, log)

SpecRecord == Init /\ [][NextRecord]_vars

\* The HTTP endpoints of deploy-time monitoring and the warehouse ingestion.
InitMonitor == InitWith(MonitorScenarios)

NextMonitor ==
    \/ \E version \in scenario.versions, minute \in Minutes,
          error_logs \in scenario.batches :
          Monitor(version, minute, error_logs)
    \/ \E version \in scenario.versions, log_hour \in scenario.hours,
          log \in scenario.logs :
          RecordFromErrors(version, log_hour, log)
    \/ \E version_id \in scenario.versions, minute \in Minutes,
          orig_versions \in scenario.verify :
          MonitorResults(version_id, minute, orig_versions)
    \/ \E version \in scenario.versions : ViewVersionErrors(version)

SpecMonitor == InitMonitor /\ [][NextMonitor]_vars

\* POST /monitor with every kind of body, and the expiry of the keys.
InitPost == InitWith(PostScenarios)

NextPost ==
    \/ \E params \in scenario.bodies : PostMonitor(params)
    \/ \E seconds \in { fast_key_expiry_seconds, KEY_EXPIRY_SECONDS } : Tick(seconds)

SpecPost == InitPost /\ [][NextPost]_vars

\* The warehouse records of one version over four log hours, one of them
\* older than the expiry window, in any order, while up to an hour passes.
HourScenarios ==
    { [ name |-> "hours",
        logs |-> { LogDirective1, LogDirective22, LogOther },
        versions |-> { << "v001" >> },
        hours |-> { << 20141105, 12 >>, << 20141116, 23 >>, << 20141117, 4 >>,
                    << 20141117, 10 >> } ] }

InitHours == InitWith(HourScenarios)

NextHours ==
    \/ \E version \in scenario.versions, log_hour \in scenario.hours,
          log \in scenario.logs :
          RecordFromErrors(version, log_hour, log)
    \/ Tick(fast_key_expiry_seconds)

SpecHours == InitHours /\ [][NextHours]_vars

(***************************************************************************)
(* The warehouse ingestor (bigquery_import.py).  A version id is a         *)
(* sequence of characters.  The warehouse is a script: the responses it    *)
(* gives to the first, second and third attempt of one query.  A response  *)
(* is a record of kind ("complete", "incomplete" for jobComplete = false,  *)
(* "no_rows" for a complete response without rows, "http" for an HttpError *)
(* and "token" for an AccessTokenRefreshError), the reason of an HttpError *)
(* and the rows of a complete response.  models.record_occurrence_from_logs *)
(* of the call in logs_from_bigquery is record_occurrence_from_errors, the *)
(* recorder models.py defines with these parameters.                       *)
(***************************************************************************)
QueryAttempts == 3
RetrySleepSeconds == 60
HexDigits == Digits \cup { "a", "b", "c", "d", "e", "f" }

\* re.match(r'\d{6}-\d{4}-[0-9a-f]{12}', version_id)
IsDeployVersion(version_id) ==
    /\ Len(version_id) >= 24
    /\ \A i \in 1..6 : version_id[i] \in Digits
    /\ version_id[7] = "-"
    /\ \A i \in 8..11 : version_id[i] \in Digits
    /\ version_id[12] = "-"
    /\ \A i \in 13..24 : version_id[i] \in HexDigits

AlertBlacklistStrings ==
    { << "Exceeded", " ", "soft", " ", "private", " ", "memory", " ", "limit" >>,
      << "ApplicationError", ":", " ", "4", " ", "Unknown", " ", "error" >>,
      << "Problem", " ", "out", " ", "of", " ", "order" >>,
      << "SAT", " ", "problem", " ", "out", " ", "of", " ", "order" >> }

MasteryHead == << "client", " ", "mastery", " ", "task", " ", "(" >>
MasteryTail == << ")", " ", "is", " ", "OLDER", " ", "than", " ", "server" >>

\* re.compile(r'client mastery task \(\d+\) is OLDER than server').search
MatchesMastery(line) ==
    \E i \in 1..Len(line), j \in 1..Len(line) :
       /\ i + Len(MasteryHead) <= j
       /\ j + Len(MasteryTail) - 1 <= Len(line)
       /\ SubSeq(line, i, i + Len(MasteryHead) - 1) = MasteryHead
       /\ \A k \in (i + Len(MasteryHead))..(j - 1) : line[k] \in Digits
       /\ SubSeq(line, j, j + Len(MasteryTail) - 1) = MasteryTail

\* bigquery_import._matches_blacklist
matches_alert_blacklist(logline) ==
    \E n \in 1..Len(logline) :
       \/ \E b \in AlertBlacklistStrings : Contains(logline[n], b)
       \/ MatchesMastery(logline[n])

\* models.record_log_data_received: every member has the score 1.
record_log_data_received(db, log_hour) ==
    ZAdd(db, << "available_logs" >>, 1, log_hour)

\* A bug that takes no log hour for received.
NeverReceived(db, log_hour) == FALSE

\* models.check_log_data_received
check_log_data_received(db, log_hour) ==
    HasField(db, << "available_logs" >>, log_hour)

Response(kind, reason, rows) == [ kind |-> kind, reason |-> reason, rows |-> rows ]
Complete(rows) == Response("complete", "", rows)
Incomplete == Response("incomplete", "", << >>)
NoRows == Response("no_rows", "", << >>)
HttpError(reason) == Response("http", reason, << >>)
TokenRefreshError == Response("token", "", << >>)

Queried(outcome, rows, attempts) ==
    [ outcome |-> outcome, rows |-> rows, attempts |-> attempts,
      slept |-> RetrySleepSeconds *
                (IF outcome = "none" THEN attempts ELSE attempts - 1) ]

\* A bug that tries again after an HttpError that is not notFound.
RECURSIVE RetryHttpErrors(_, _)
RetryHttpErrors(responses, attempt) ==
    IF attempt > QueryAttempts THEN Queried("none", << >>, QueryAttempts)
    ELSE IF responses[attempt].kind = "http"
    THEN (IF responses[attempt].reason = "notFound"
          THEN Queried("TableNotFoundError", << >>, attempt)
          ELSE RetryHttpErrors(responses, attempt + 1))
    ELSE IF responses[attempt].kind = "token"
    THEN Queried("MissingBigQueryCredentialsError", << >>, attempt)
    ELSE IF responses[attempt].kind = "incomplete"
    THEN RetryHttpErrors(responses, attempt + 1)
    ELSE IF responses[attempt].kind = "no_rows"
    THEN Queried("UnknownBigQueryError", << >>, attempt)
    ELSE Queried("rows", responses[attempt].rows, attempt)

\* The attempt of run_query's loop and the attempts after it.
RECURSIVE QueryAttempt(_, _)
QueryAttempt(responses, attempt) ==
    IF attempt > QueryAttempts THEN Queried("none", << >>, QueryAttempts)
    ELSE IF responses[attempt].kind = "http"
    THEN Queried(IF responses[attempt].reason = "notFound"
                 THEN "TableNotFoundError" ELSE "UnknownBigQueryError",
                 << >>, attempt)
    ELSE IF responses[attempt].kind = "token"
    THEN Queried("MissingBigQueryCredentialsError", << >>, attempt)
    ELSE IF responses[attempt].kind = "incomplete"
    THEN QueryAttempt(responses, attempt + 1)
    ELSE IF responses[attempt].kind = "no_rows"
    THEN Queried("UnknownBigQueryError", << >>, attempt)
    ELSE Queried("rows", responses[attempt].rows, attempt)

\* BigQuery.run_query: the outcome is "rows", "none" (the implicit return
\* after three incomplete responses) or the exception raised.
run_query(responses) == QueryAttempt(responses, 1)

Row(version_id, log) == [ version_id |-> version_id, log |-> log ]

\* The state of logs_from_bigquery's loop: the database, the history of
\* the occurrences, retval, the rows handed to the recorder, and whether
\* the recorder has raised.
Ingesting(db, h) ==
    [ db |-> db, h |-> h, new |-> {}, continuing |-> {}, blacklist |-> {},
      handed |-> 0, failed |-> FALSE ]

\* The row after the recorder has answered res: the key enters one set of
\* retval.
RecordedRow(acc, log_hour, row, writes, res) ==
    IF res.error_key = NoKey
    THEN [ acc EXCEPT !.db = res.db, !.handed = @ + 1 ]
    ELSE [ db |-> res.db,
           h |-> Recorded(acc.h, writes, "errors", row.version_id, log_hour,
                          row.log.ip, DefOf(row.log), res.error_key),
           new |-> IF ~matches_alert_blacklist(row.log.message) /\ res.is_new
                   THEN acc.new \cup { res.error_key } ELSE acc.new,
           continuing |-> IF ~matches_alert_blacklist(row.log.message) /\ ~res.is_new
                          THEN acc.continuing \cup { res.error_key }
                          ELSE acc.continuing,
           blacklist |-> IF matches_alert_blacklist(row.log.message)
                         THEN acc.blacklist \cup { res.error_key }
                         ELSE acc.blacklist,
           handed |-> acc.handed + 1,
           failed |-> FALSE ]

RecordRow(cs, t, log_hour, row, acc) ==
    RecordedRow(acc, log_hour, row, WritesDefinition(cs, acc.db, DefOf(row.log)),
                record_occurrence_from_errors(
                    cs, acc.db, t, row.version_id, log_hour,
                    ToString(row.log.status), ToString(row.log.level),
                    row.log.resource, row.log.ip, row.log.route,
                    row.log.module_id, row.log.message))

\* The loop over the records from the i-th on; the store fails at the
\* fails_at-th row (never, if 0): the recorder raises and the loop ends.
RECURSIVE RecordRows(_, _, _, _, _, _, _)
RecordRows(cs, t, log_hour, rows, i, fails_at, acc) ==
    IF i > Len(rows) \/ acc.failed THEN acc
    ELSE IF ~IsDeployVersion(rows[i].version_id)
    THEN RecordRows(cs, t, log_hour, rows, i + 1, fails_at, acc)
    ELSE IF i = fails_at
    THEN [ acc EXCEPT !.failed = TRUE ]
    ELSE RecordRows(cs, t, log_hour, rows, i + 1, fails_at,
                    RecordRow(cs, t, log_hour, rows[i], acc))

\* What a call of logs_from_bigquery did: the database and the history
\* after it, the seconds slept, the outcome ("skipped" for an hour already
\* received, "returned", or the exception that left the call), the query
\* attempts, the rows run_query returned, the rows handed to the recorder
\* and retval.
Ingested(acc, outcome, q) ==
    [ db |-> acc.db, h |-> acc.h, slept |-> q.slept, outcome |-> outcome,
      attempts |-> q.attempts, rows |-> q.rows, handed |-> acc.handed,
      new |-> acc.new, continuing |-> acc.continuing,
      blacklist |-> acc.blacklist ]

NoQuery == [ outcome |-> "none", rows |-> << >>, attempts |-> 0, slept |-> 0 ]

\* A bug that marks the hour received although the recorder has raised.
MarkedAlthoughFailed(log_hour, q, acc) ==
    Ingested([ acc EXCEPT !.db = record_log_data_received(acc.db, log_hour) ],
             IF acc.failed THEN "RedisError" ELSE "returned", q)

\* logs_from_bigquery after its loop: the hour is marked received.
LogsRecorded(log_hour, q, acc) ==
    IF acc.failed THEN Ingested(acc, "RedisError", q)
    ELSE Ingested([ acc EXCEPT !.db = record_log_data_received(acc.db, log_hour) ],
                  "returned", q)

\* logs_from_bigquery after run_query: None is not iterable.
LogsQueried(cs, db, h, t, log_hour, fails_at, q) ==
    IF q.outcome = "none" THEN Ingested(Ingesting(db, h), "TypeError", q)
    ELSE IF q.outcome # "rows" THEN Ingested(Ingesting(db, h), q.outcome, q)
    ELSE LogsRecorded(log_hour, q,
                      RecordRows(cs, t + q.slept, log_hour, q.rows, 1, fails_at,
                                 Ingesting(db, h)))

\* BigQuery.logs_from_bigquery
logs_from_bigquery(cs, db, h, t, log_hour, responses, fails_at) ==
    IF check_log_data_received(db, log_hour)
    THEN Ingested(Ingesting(db, h), "skipped", NoQuery)
    ELSE LogsQueried(cs, db, h, t, log_hour, fails_at, run_query(responses))

\* sum(int(hr['count']) for hr in info['by_hour_and_version']
\*     if hr['hour'].startswith(date_str))
TodayOccurrences(info, date) ==
    SumCounts({ hr \in info.by_hour_and_version : hr.hour[1] = date })

Alert(kind, log_hour, keys, occurrences) ==
    [ kind |-> kind, log_hour |-> log_hour, keys |-> keys,
      occurrences |-> occurrences ]

\* The summaries read for the continuing keys: the caches and the database
\* after the reads, the occurrences of today per key, and whether a key
\* had no summary.
RECURSIVE ContinuingAlerts(_, _, _)
ContinuingAlerts(date, keys, acc) ==
    IF keys = {} \/ acc.failed THEN acc
    ELSE LET k == CHOOSE x \in keys : TRUE
             s == get_error_summary_info(acc.caches, acc.db, k)
         IN  IF ~s.found THEN [ acc EXCEPT !.failed = TRUE ]
             ELSE ContinuingAlerts(date, keys \ {k},
                      [ caches |-> s.caches, db |-> s.db,
                        today |-> Put(acc.today, k, TodayOccurrences(s.info, date)),
                        failed |-> FALSE ])

FullAlerts == 3

\* continuing_alerts.sort(reverse=True)[:N]: the N keys of most
\* occurrences (all of them, if there are no more than N).
MostFrequent(today) ==
    IF Cardinality(DOMAIN today) <= FullAlerts THEN DOMAIN today
    ELSE CHOOSE top \in SUBSET DOMAIN today :
           /\ Cardinality(top) = FullAlerts
           /\ \A k \in top, o \in DOMAIN today \ top : today[k] >= today[o]

\* The alerts send_alerts_for_errors sends for the hour.
AlertsOf(log_hour, today, new) ==
    { Alert("continuing", log_hour, { k }, today[k]) : k \in MostFrequent(today) }
    \cup (IF DOMAIN today \ MostFrequent(today) = {} THEN {}
          ELSE { Alert("more", log_hour, DOMAIN today \ MostFrequent(today), 0) })
    \cup (IF new = {} THEN {} ELSE { Alert("new", log_hour, new, 0) })

\* What the run did for one hour.
HourRun(log_hour, res, alerts) ==
    [ log_hour |-> log_hour, outcome |-> res.outcome, attempts |-> res.attempts,
      handed |-> res.handed, alerts |-> alerts ]

\* The run after logs_from_bigquery of an hour.
Fetched(run, log_hour, res, outcome) ==
    [ run EXCEPT !.db = res.db, !.h = res.h, !.t = @ + res.slept,
                 !.outcome = outcome,
                 !.hours = Append(@, HourRun(log_hour, res, {})) ]

\* The run after the alerts of an hour, error_key_dict being dict.
Alerted(run, log_hour, res, dict, al) ==
    IF al.failed THEN Fetched(run, log_hour, res, "Exception")
    ELSE [ caches |-> al.caches, db |-> al.db, h |-> res.h,
           t |-> run.t + res.slept, outcome |-> "running",
           bound |-> TRUE, new |-> dict.new, continuing |-> dict.continuing,
           hours |-> Append(run.hours,
                            HourRun(log_hour, res,
                                    AlertsOf(log_hour, al.today, dict.new))) ]

Alerting(date, run, log_hour, res, dict) ==
    Alerted(run, log_hour, res, dict,
            ContinuingAlerts(date, dict.continuing,
                             [ caches |-> run.caches, db |-> res.db,
                               today |-> << >>, failed |-> FALSE ]))

\* A bug that goes on to the next hour when the table is not found.
ContinuesAfterNotFound(date, run, log_hour, res) ==
    IF res.outcome = "TableNotFoundError"
    THEN Fetched(run, log_hour, res, "running")
    ELSE IF res.outcome \in { "TypeError", "RedisError" }
    THEN Fetched(run, log_hour, res, res.outcome)
    ELSE IF res.outcome \in { "UnknownBigQueryError",
                              "MissingBigQueryCredentialsError" }
    THEN (IF run.bound THEN Alerting(date, run, log_hour, res, run)
          ELSE Fetched(run, log_hour, res, "UnboundLocalError"))
    ELSE Alerting(date, run, log_hour, res, res)

\* One turn of the loop of send_alerts_for_errors: the table that is not
\* found ends the loop; after the two errors logged as fatal the turn goes
\* on with error_key_dict as the turn before left it, or raises when it
\* was never bound; any other exception leaves the function.
HourOfRun(date, run, log_hour, res) ==
    IF res.outcome = "TableNotFoundError"
    THEN Fetched(run, log_hour, res, "stopped")
    ELSE IF res.outcome \in { "TypeError", "RedisError" }
    THEN Fetched(run, log_hour, res, res.outcome)
    ELSE IF res.outcome \in { "UnknownBigQueryError",
                              "MissingBigQueryCredentialsError" }
    THEN (IF run.bound THEN Alerting(date, run, log_hour, res, run)
          ELSE Fetched(run, log_hour, res, "UnboundLocalError"))
    ELSE Alerting(date, run, log_hour, res, res)

\* The responses of the warehouse for the hour: the table of an hour
\* after the last one of the day is not there yet.
HourOfDay(day, hour) ==
    IF hour < Len(day) THEN day[hour + 1]
    ELSE [ responses |-> [ a \in 1..QueryAttempts |-> HttpError("notFound") ],
           fails_at |-> 0 ]

DayHours == 3

RECURSIVE RunHours(_, _, _, _)
RunHours(date, day, hour, run) ==
    IF run.outcome # "running" THEN run
    ELSE IF hour >= DayHours THEN [ run EXCEPT !.outcome = "done" ]
    ELSE RunHours(date, day, hour + 1,
                  HourOfRun(date, run, << date, hour >>,
                            logs_from_bigquery(run.caches, run.db, run.h, run.t,
                                               << date, hour >>,
                                               HourOfDay(day, hour).responses,
                                               HourOfDay(day, hour).fails_at)))

\* bigquery_import.send_alerts_for_errors for the hours 0..DayHours - 1 of
\* the date.
send_alerts_for_errors(cs, db, h, t, date, day) ==
    RunHours(date, day, 0,
             [ caches |-> cs, db |-> db, h |-> h, t |-> t, outcome |-> "running",
               bound |-> FALSE, new |-> {}, continuing |-> {}, hours |-> << >> ])

(***************************************************************************)
(* The calls of the ingestor.                                              *)
(***************************************************************************)
\* logs_from_bigquery(log_hour) answered res; the warehouse answered the
\* query by the script responses and the store failed at the fails_at-th
\* row.
Ingest(log_hour, responses, fails_at, res) ==
    /\ counters.records < MaxRecords
    /\ r' = res.db
    /\ history' = res.h
    /\ now' = now + res.slept
    /\ last' = [ NoLast EXCEPT
                   !.op = "logs_from_bigquery", !.log_hour = log_hour,
                   !.ingest = [ responses |-> responses, fails_at |-> fails_at,
                                marked |-> check_log_data_received(r, log_hour),
                                outcome |-> res.outcome,
                                attempts |-> res.attempts, rows |-> res.rows,
                                handed |-> res.handed, new |-> res.new,
                                continuing |-> res.continuing,
                                blacklist |-> res.blacklist ] ]
    /\ counters' = [ counters EXCEPT !.records = @ + 1 ]
    /\ UNCHANGED << caches, scenario >>

LogsFromBigquery(log_hour, responses, fails_at) ==
    Ingest(log_hour, responses, fails_at,
           logs_from_bigquery(caches, r, history, now, log_hour, responses,
                              fails_at))

\* send_alerts_for_errors(date) ran as run; the warehouse answered the
\* queries of the hours by the scripts of day.
Ran(date, day, run) ==
    /\ counters.records < MaxRecords
    /\ r' = run.db
    /\ caches' = run.caches
    /\ history' = run.h
    /\ now' = run.t
    /\ last' = [ NoLast EXCEPT
                   !.op = "send_alerts_for_errors",
                   !.run = [ date |-> date, day |-> day,
                             outcome |-> run.outcome, hours |-> run.hours ] ]
    /\ counters' = [ counters EXCEPT !.records = @ + 1 ]
    /\ UNCHANGED scenario

SendAlertsForErrors(date, day) ==
    Ran(date, day, send_alerts_for_errors(caches, r, history, now, date, day))

\* Version ids, rows and scripts of the warehouse.
DeployVersion ==
    << "0", "0", "0", "0", "0", "0", "-", "0", "0", "0", "0", "-",
       "0", "1", "2", "3", "4", "5", "6", "7", "8", "9", "a", "b" >>
ZndVersion == << "z", "n", "d", "-", "t", "o", "m" >>

LogMemoryLimit ==
    Log(500, << "/test" >>, "1.1.1.1", << TitleMemoryLimit(<<"1">>) >>)

\* Two rows of one error class and a row of a version that is not a
\* deploy; a row of another class and a row of the alert blacklist; one
\* row of the first class.
RowsDirective ==
    << Row(DeployVersion, LogDirective1), Row(ZndVersion, LogFoo),
       Row(DeployVersion, LogDirective22) >>
RowsOther == << Row(DeployVersion, LogOther), Row(DeployVersion, LogMemoryLimit) >>
RowsAgain == << Row(DeployVersion, LogDirective1) >>

Script(first, second, third) == << first, second, third >>
Always(response) == Script(response, response, response)
Call(responses, fails_at) == [ responses |-> responses, fails_at |-> fails_at ]

\* The reasons of the HttpErrors that pass: a 5xx of the backend, "try
\* again" and "rate limits exceeded".
TransientReasons == { "backendError", "internalError", "rateLimitExceeded" }

IngestScenarios ==
    { [ name |-> "hours",
        date |-> 20141117,
        hours |-> { << 20141117, 0 >>, << 20141117, 1 >> },
        calls |-> { Call(Always(Complete(RowsDirective)), 0),
                    Call(Always(Complete(RowsAgain)), 0),
                    Call(Always(Complete(RowsOther)), 0),
                    Call(Always(Complete(RowsDirective)), 3) },
        days |-> { << Call(Always(Complete(RowsDirective)), 0),
                      Call(Always(Complete(RowsAgain)), 0) >> } ],
      [ name |-> "attempts",
        date |-> 20141117,
        hours |-> { << 20141117, 0 >> },
        calls |-> { Call(Script(Incomplete, Complete(RowsAgain), Complete(RowsOther)), 0),
                    Call(Script(Incomplete, Incomplete, Complete(RowsAgain)), 0),
                    Call(Always(Incomplete), 0),
                    Call(Always(NoRows), 0),
                    Call(Script(Incomplete, HttpError("notFound"), Complete(RowsAgain)), 0),
                    Call(Script(HttpError("backendError"), Complete(RowsAgain), Complete(RowsAgain)), 0),
                    Call(Script(HttpError("internalError"), Complete(RowsAgain), Complete(RowsAgain)), 0),
                    Call(Script(HttpError("rateLimitExceeded"), Complete(RowsAgain), Complete(RowsAgain)), 0),
                    Call(Always(TokenRefreshError), 0) },
        days |-> { << Call(Script(Incomplete, Complete(RowsAgain), Complete(RowsAgain)), 0) >> } ],
      [ name |-> "runs",
        date |-> 20141117,
        hours |-> { << 20141117, 1 >> },
        calls |-> { Call(Always(Complete(RowsAgain)), 0) },
        days |-> { << Call(Always(Complete(RowsDirective)), 0),
                      Call(Always(Complete(RowsAgain)), 0),
                      Call(Always(Complete(RowsOther)), 0) >>,
                   << Call(Always(Complete(RowsDirective)), 0),
                      Call(Always(HttpError("notFound")), 0),
                      Call(Always(Complete(RowsOther)), 0) >>,
                   << Call(Always(Complete(RowsDirective)), 0),
                      Call(Always(HttpError("invalidQuery")), 0),
                      Call(Always(Complete(RowsAgain)), 0) >>,
                   << Call(Always(HttpError("invalidQuery")), 0),
                      Call(Always(Complete(RowsAgain)), 0) >>,
                   << Call(Always(Complete(RowsDirective)), 0),
                      Call(Always(TokenRefreshError), 0),
                      Call(Always(Complete(RowsAgain)), 0) >>,
                   << Call(Always(Complete(RowsDirective)), 0),
                      Call(Always(Complete(RowsAgain)), 1),
                      Call(Always(Complete(RowsOther)), 0) >>,
                   << Call(Always(Complete(RowsDirective)), 0) >> } ] }

InitIngest == InitWith(IngestScenarios)

NextIngest ==
    \/ \E log_hour \in scenario.hours, call \in scenario.calls :
          LogsFromBigquery(log_hour, call.responses, call.fails_at)
    \/ \E day \in scenario.days : SendAlertsForErrors(scenario.date, day)

\* The ingestor alone: calls of logs_from_bigquery for single hours and
\* runs of send_alerts_for_errors over the hours of a day.
SpecIngest == InitIngest /\ [][NextIngest]_vars

(***************************************************************************)
(* The request counts of anomaly detection (models.py).  SET stores the    *)
(* decimal text of the count and int() reads it back.                      *)
(***************************************************************************)
DigitText == << "0", "1", "2", "3", "4", "5", "6", "7", "8", "9" >>

\* str(n) of a natural number.
RECURSIVE IntToText(_)
IntToText(n) ==
    IF n < 10 THEN << DigitText[n + 1] >>
    ELSE IntToText(n \div 10) \o << DigitText[(n % 10) + 1] >>

\* int(s) of a decimal text.
RECURSIVE TextToInt(_)
TextToInt(s) ==
    IF s = << >> THEN 0
    ELSE TextToInt(SubSeq(s, 1, Len(s) - 1)) * 10
         + (CHOOSE d \in 0..9 : DigitText[d + 1] = s[Len(s)])

SAdd(db, k, m) == HSet(db, k, m, 1)

NumSeenKey(route, status, log_hour) ==
    << "route:status:log_hour:num_seen", route, status, log_hour >>

\* models.record_occurrences_from_requests
record_occurrences_from_requests(db, log_hour, status, route, num_seen) ==
    RSet(SAdd(SAdd(db, << "seen_routes" >>, route), << "seen_statuses" >>, status),
         NumSeenKey(route, status, log_hour), IntToText(num_seen))

\* models.get_responses_count
get_responses_count(db, route, status_code, log_hour) ==
    IF Exists(db, NumSeenKey(route, status_code, log_hour))
    THEN TextToInt(db.data[NumSeenKey(route, status_code, log_hour)])
    ELSE 0

\* ZRANGE 0 -1 of a sorted set of log hours: by score, and by the text of
\* the member among equal scores; the text 'YYYYMMDD_HH' orders as the
\* number YYYYMMDDHH does.
RECURSIVE ZRangeHours(_, _, _)
ZRangeHours(db, k, members) ==
    IF members = {} THEN << >>
    ELSE LET m == CHOOSE x \in members :
                    \A o \in members :
                       \/ db.data[k][x] < db.data[k][o]
                       \/ /\ db.data[k][x] = db.data[k][o]
                          /\ LogHourInt(x) <= LogHourInt(o)
         IN  << m >> \o ZRangeHours(db, k, members \ {m})

Series(dates_seen, hourly_responses) ==
    [ dates_seen |-> dates_seen, hourly_responses |-> hourly_responses ]

\* A bug that leaves out every hour without a count.
RECURSIVE SkipsEveryZero(_, _, _, _, _, _)
SkipsEveryZero(db, route, status_code, log_hours, seen_instance, acc) ==
    IF log_hours = << >> THEN acc
    ELSE IF get_responses_count(db, route, status_code, Head(log_hours)) = 0
    THEN SkipsEveryZero(db, route, status_code, Tail(log_hours), seen_instance, acc)
    ELSE SkipsEveryZero(db, route, status_code, Tail(log_hours), TRUE,
             Series(Append(acc.dates_seen, Head(log_hours)),
                    Append(acc.hourly_responses,
                           get_responses_count(db, route, status_code,
                                               Head(log_hours)))))

\* The loop of get_hourly_responses_count over the log hours.
RECURSIVE HourlyResponses(_, _, _, _, _, _)
HourlyResponses(db, route, status_code, log_hours, seen_instance, acc) ==
    IF log_hours = << >> THEN acc
    ELSE IF /\ ~seen_instance
            /\ get_responses_count(db, route, status_code, Head(log_hours)) = 0
    THEN HourlyResponses(db, route, status_code, Tail(log_hours), FALSE, acc)
    ELSE HourlyResponses(db, route, status_code, Tail(log_hours), TRUE,
             Series(Append(acc.dates_seen, Head(log_hours)),
                    Append(acc.hourly_responses,
                           get_responses_count(db, route, status_code,
                                               Head(log_hours)))))

\* models.get_hourly_responses_count
get_hourly_responses_count(db, route, status_code) ==
    HourlyResponses(db, route, status_code,
                    ZRangeHours(db, << "available_logs" >>,
                                Members(db, << "available_logs" >>)),
                    FALSE, Series(<< >>, << >>))

(***************************************************************************)
(* The calls of the request counts.                                        *)
(***************************************************************************)
MaxMarks == 3

RecordOccurrencesFromRequests(log_hour, status, route, num_seen) ==
    /\ counters.records < MaxRecords
    /\ r' = record_occurrences_from_requests(r, log_hour, status, route, num_seen)
    /\ history' = [ history EXCEPT
                      !.requests = Put(@, << route, status, log_hour >>,
                                       Append(IF << route, status, log_hour >>
                                                 \in DOMAIN @
                                              THEN @[<< route, status, log_hour >>]
                                              ELSE << >>,
                                              num_seen)) ]
    /\ last' = [ NoLast EXCEPT
                   !.op = "record_occurrences_from_requests",
                   !.log_hour = log_hour,
                   !.request = [ NoRequest EXCEPT !.route = route,
                                                  !.status = status,
                                                  !.num_seen = num_seen ] ]
    /\ counters' = [ counters EXCEPT !.records = @ + 1 ]
    /\ UNCHANGED << caches, now, scenario >>

RecordLogDataReceived(log_hour) ==
    /\ Len(history.marks) < MaxMarks
    /\ r' = record_log_data_received(r, log_hour)
    /\ history' = [ history EXCEPT !.marks = Append(@, log_hour) ]
    /\ last' = [ NoLast EXCEPT !.op = "record_log_data_received",
                               !.log_hour = log_hour ]
    /\ UNCHANGED << caches, now, scenario, counters >>

GetHourlyResponsesCount(route, status) ==
    /\ counters.reads < MaxReads
    /\ last' = [ NoLast EXCEPT
                   !.op = "get_hourly_responses_count",
                   !.request = [ NoRequest EXCEPT
                                   !.route = route, !.status = status,
                                   !.series = get_hourly_responses_count(
                                                  r, route, status) ] ]
    /\ counters' = [ counters EXCEPT !.reads = @ + 1 ]
    /\ UNCHANGED << r, caches, now, scenario, history >>

\* The calls of test_model.py: the counts of one route over three log
\* hours of the same hour of the day, recorded and marked received in any
\* order, and the series read for that route and for another.
RequestScenarios ==
    { [ name |-> "requests",
        routes |-> { "/route1", "/route2" },
        recorded |-> { "/route1" },
        statuses |-> { 200 },
        counts |-> { 0, 3, 12 },
        hours |-> { << 20200101, 11 >>, << 20200103, 11 >>, << 20210111, 11 >> } ] }

InitRequests == InitWith(RequestScenarios)

NextRequests ==
    \/ \E log_hour \in scenario.hours, status \in scenario.statuses,
          route \in scenario.recorded, num_seen \in scenario.counts :
          RecordOccurrencesFromRequests(log_hour, status, route, num_seen)
    \/ \E log_hour \in scenario.hours : RecordLogDataReceived(log_hour)
    \/ \E route \in scenario.routes, status \in scenario.statuses :
          GetHourlyResponsesCount(route, status)

SpecRequests == InitRequests /\ [][NextRequests]_vars

(***************************************************************************)
(* Anomaly detection on the request counts (detect_anomalies.py and        *)
(* report_anomalies.py).  The scores come from the R detector, which is    *)
(* not part of the program: what it answers for a route is an input, a     *)
(* sequence of scores for the positions of the series or a failure.        *)
(***************************************************************************)
HTTP_OK_CODE == 200

\* The period of the series: 7 * 24 hours in the source, one hour in its
\* tests, two hours here.
NUM_HOURS_PER_WEEK == 2

\* The score below which a drop is reported.
AnomalyThreshold == -10

\* list(r.smembers("seen_routes")), in one of its orders.
RECURSIVE MembersList(_)
MembersList(members) ==
    IF members = {} THEN << >>
    ELSE LET m == CHOOSE x \in members : TRUE
         IN  << m >> \o MembersList(members \ {m})

\* models.get_routes
get_routes(db) == MembersList(Members(db, << "seen_routes" >>))

\* x[len(x) % frequency:]
Truncated(x, frequency) == SubSeq(x, (Len(x) % frequency) + 1, Len(x))

\* The index, counted from 0, of the last entry of hours_seen that is
\* log_hour, -1 when there is none.
LogHourIndex(hours_seen, log_hour) ==
    LET at == { i \in 1..Len(hours_seen) : hours_seen[i] = log_hour }
    IN  IF at = {} THEN -1
        ELSE (CHOOSE i \in at : \A j \in at : j <= i) - 1

\* detect_anomalies.rpca: the scores of the detector for the series, zeros
\* when the detector raises RRuntimeError.
rpca(time_series, frequency, detector) ==
    IF detector.raises THEN [ i \in 1..Len(time_series) |-> 0 ]
    ELSE SubSeq(detector.scores, 1, Len(time_series))

\* A bug that skips the hours that are not in the series only.
SkipsOnlyAbsent(hours_seen, responses_count, log_hour, detector) ==
    IF LogHourIndex(hours_seen, log_hour) = -1 THEN 0
    ELSE LET anomaly_scores == rpca(responses_count, NUM_HOURS_PER_WEEK, detector)
         IN  anomaly_scores[IF LogHourIndex(hours_seen, log_hour) = 0
                            THEN Len(anomaly_scores)
                            ELSE LogHourIndex(hours_seen, log_hour)]

\* check_anomaly after the truncation: anomalies[index] of the route.
\* anomaly_scores[log_hour_index - 1] of the source is entry log_hour_index
\* of a sequence that starts at 1.
AnomalyOf(hours_seen, responses_count, log_hour, detector) ==
    IF \/ LogHourIndex(hours_seen, log_hour) = -1
       \/ LogHourIndex(hours_seen, log_hour) = 0
    THEN 0
    ELSE rpca(responses_count, NUM_HOURS_PER_WEEK,
              detector)[LogHourIndex(hours_seen, log_hour)]

\* check_anomaly of find_anomalies_on_routes
check_anomaly(db, route, log_hour, detector) ==
    AnomalyOf(Truncated(get_hourly_responses_count(db, route, HTTP_OK_CODE).dates_seen,
                        NUM_HOURS_PER_WEEK),
              Truncated(get_hourly_responses_count(db, route,
                                                   HTTP_OK_CODE).hourly_responses,
                        NUM_HOURS_PER_WEEK),
              log_hour, detector)

\* detect_anomalies.find_anomalies_on_routes: multiprocess_map runs
\* check_anomaly for every index, each call fills its own entry.
find_anomalies_on_routes(db, log_hour, routes, detectors) ==
    [ i \in 1..Len(routes) |->
        check_anomaly(db, routes[i], log_hour, detectors[routes[i]]) ]

Anomaly(route, status, count, anomaly_score) ==
    [ route |-> route, status |-> status, count |-> count,
      anomaly_score |-> anomaly_score ]

\* The loop of _get_recent_anomalies from route i on.
RECURSIVE RecentAnomalies(_, _, _, _, _)
RecentAnomalies(db, log_hour, routes, anomaly_scores, i) ==
    IF i > Len(routes) THEN << >>
    ELSE ( IF anomaly_scores[i] < AnomalyThreshold
           THEN << Anomaly(routes[i], HTTP_OK_CODE,
                           get_responses_count(db, routes[i], HTTP_OK_CODE,
                                               log_hour),
                           anomaly_scores[i]) >>
           ELSE << >> )
         \o RecentAnomalies(db, log_hour, routes, anomaly_scores, i + 1)

\* report_anomalies._get_recent_anomalies
get_recent_anomalies(db, log_hour, detectors) ==
    RecentAnomalies(db, log_hour, get_routes(db),
                    find_anomalies_on_routes(db, log_hour, get_routes(db),
                                             detectors),
                    1)

GetRecentAnomalies(log_hour, detectors) ==
    /\ counters.reads < MaxReads
    /\ last' = [ NoLast EXCEPT
                   !.op = "get_recent_anomalies",
                   !.log_hour = log_hour,
                   !.anomalies =
                       [ detectors |-> detectors,
                         routes |-> get_routes(r),
                         scores |-> find_anomalies_on_routes(
                                        r, log_hour, get_routes(r), detectors),
                         report |-> get_recent_anomalies(r, log_hour,
                                                         detectors) ] ]
    /\ counters' = [ counters EXCEPT !.reads = @ + 1 ]
    /\ UNCHANGED << r, caches, now, scenario, history >>

\* The longest series that is left of MaxMarks hours after the truncation.
MaxSeries == MaxMarks - (MaxMarks % NUM_HOURS_PER_WEEK)

\* What the detector may answer for a series of at most MaxSeries hours.
Detectors(scores) ==
    { [ raises |-> TRUE, scores |-> [ i \in 1..MaxSeries |-> 0 ] ] }
    \cup [ raises : { FALSE }, scores : [ 1..MaxSeries -> scores ] ]

\* The counts of a route over three hours in a row, the usual count of
\* RequestMonitorTest of test_server.py or none, with scores far from
\* the threshold, and the counts of two routes over two hours, with scores
\* at the threshold and right below it.
AnomalyScenarios ==
    { [ name |-> "drop",
        recorded |-> { "/path" },
        statuses |-> { HTTP_OK_CODE },
        counts |-> { 100 },
        scores |-> { -20, 0 },
        hours |-> { << 20100120, 0 >>, << 20100120, 1 >>, << 20100120, 2 >> } ],
      [ name |-> "routes",
        recorded |-> { "/path", "/other" },
        statuses |-> { HTTP_OK_CODE },
        counts |-> { 1 },
        scores |-> { AnomalyThreshold - 1, AnomalyThreshold },
        hours |-> { << 20100120, 0 >>, << 20100120, 1 >> } ] }

InitAnomalies == InitWith(AnomalyScenarios)

NextAnomalies ==
    \/ \E log_hour \in scenario.hours, status \in scenario.statuses,
          route \in scenario.recorded, num_seen \in scenario.counts :
          RecordOccurrencesFromRequests(log_hour, status, route, num_seen)
    \/ \E log_hour \in scenario.hours : RecordLogDataReceived(log_hour)
    \/ \E log_hour \in scenario.hours,
          detectors \in [ scenario.recorded -> Detectors(scenario.scores) ] :
          GetRecentAnomalies(log_hour, detectors)

SpecAnomalies == InitAnomalies /\ [][NextAnomalies]_vars

(***************************************************************************)
(* The baseline analyzer on its own: a history of counts and the calls of  *)
(* _count_is_elevated_probability for it.                                  *)
(***************************************************************************)
MaxHistory == 3
MaxCount == 3
MaxRecent == 8

CountIsElevatedProbability(historical_counts, recent_count) ==
    /\ counters.reads < MaxReads
    /\ last' = [ NoLast EXCEPT
                   !.op = "count_is_elevated_probability",
                   !.baseline =
                       [ historical_counts |-> historical_counts,
                         recent_count |-> recent_count,
                         expected_num |->
                             elevated_probability(historical_counts,
                                                  recent_count).expected_num,
                         expected_den |->
                             elevated_probability(historical_counts,
                                                  recent_count).expected_den,
                         probability |->
                             elevated_probability(historical_counts,
                                                  recent_count).probability ] ]
    /\ counters' = [ counters EXCEPT !.reads = @ + 1 ]
    /\ UNCHANGED << r, caches, now, scenario, history >>

\* The histories of at most MaxHistory counts of at most MaxCount.
BaselineScenarios ==
    { [ name |-> "baseline", historical_counts |-> h ] :
        h \in UNION { [ 1..n -> 0..MaxCount ] : n \in 0..MaxHistory } }

InitBaseline == InitWith(BaselineScenarios)

NextBaseline ==
    \E recent_count \in 0..MaxRecent :
       CountIsElevatedProbability(scenario.historical_counts, recent_count)

SpecBaseline == InitBaseline /\ [][NextBaseline]_vars

(***************************************************************************)
(* The warehouse records of one version while the keys expire: half the    *)
(* expiry time passes at a time.                                           *)
(***************************************************************************)
MaxHalfWeeks == 2

\* Half of KEY_EXPIRY_SECONDS passes; the keys whose time has come expire.
HalfWeek ==
    /\ counters.ticks < MaxHalfWeeks
    /\ now' = now + (KEY_EXPIRY_SECONDS \div 2)
    /\ r' = Expired(r, now + (KEY_EXPIRY_SECONDS \div 2))
    /\ last' = [ NoLast EXCEPT !.op = "tick" ]
    /\ counters' = [ counters EXCEPT !.ticks = @ + 1 ]
    /\ UNCHANGED << caches, scenario, history >>

ExpiryScenarios ==
    { [ name |-> "expiry",
        logs |-> { LogDirective1, LogOther },
        versions |-> { << "v001" >> },
        hours |-> { << 20141117, 4 >>, << 20141117, 10 >> } ] }

InitExpiry == InitWith(ExpiryScenarios)

NextExpiry ==
    \/ \E version \in scenario.versions, log_hour \in scenario.hours,
          log \in scenario.logs :
          RecordFromErrors(version, log_hour, log)
    \/ HalfWeek

SpecExpiry == InitExpiry /\ [][NextExpiry]_vars

(***************************************************************************)
(* Handlers that run record_occurrence_during_monitoring at the same time  *)
(* (models.py).  _update_error_details is one step; from there on every    *)
(* Redis command of the function is a step of its own, and the steps of    *)
(* the handlers interleave in any order.                                   *)
(***************************************************************************)
ErrorsByMinute(h) == << "ver:errors_by_minute", MON(h.version), h.minute >>

IpErrorsByMinute(h) ==
    << "ver:ip:errors_by_minute", MON(h.version), h.log.ip, h.minute >>

UniqueErrorsByMinute(h) ==
    << "ver:unique_errors_by_minute", MON(h.version), h.minute >>

\* The step of handler i from pc on: the database and the handler after.
HandlerStep(i, pc, db, handler) ==
    /\ last.handlers[i].pc = pc
    /\ r' = db
    /\ last' = [ last EXCEPT !.op = "handler", !.handlers[i] = handler ]
    /\ UNCHANGED << caches, now, scenario, history, counters >>

\* The handler after _update_error_details answered upd.
Updated(handler, upd) ==
    [ handler EXCEPT !.pc = IF upd.error_key = NoKey THEN "done"
                            ELSE "incr_minute",
                     !.error_key = upd.error_key ]

\* error_key = _update_error_details("MON_%s" % version, ...)
HandlerUpdate(i, version, minute, log) ==
    LET upd == update_error_details(
                   caches, r, now + KEY_EXPIRY_SECONDS, MON(version),
                   ToString(log.status), ToString(log.level), log.resource,
                   log.ip, log.route, log.module_id, log.message)
    IN  HandlerStep(i, "idle", upd.db,
                    Updated([ NoHandler EXCEPT !.version = version,
                                               !.minute = minute,
                                               !.log = log ],
                            upd))

\* r.zincrby("ver:%s:errors_by_minute:%s", error_key, 1)
IncrMinute(i) ==
    HandlerStep(i, "incr_minute",
                ZIncrBy(r, ErrorsByMinute(last.handlers[i]),
                        last.handlers[i].error_key),
                [ last.handlers[i] EXCEPT !.pc = "expire_minute" ])

\* r.expire("ver:%s:errors_by_minute:%s", KEY_EXPIRY_SECONDS)
ExpireMinute(i) ==
    HandlerStep(i, "expire_minute",
                RExpire(r, ErrorsByMinute(last.handlers[i]),
                        now + KEY_EXPIRY_SECONDS),
                [ last.handlers[i] EXCEPT !.pc = "incr_ip" ])

\* r.zincrby("ver:%s:ip_%s:errors_by_minute:%s", error_key, 1)
IncrIp(i) ==
    HandlerStep(i, "incr_ip",
                ZIncrBy(r, IpErrorsByMinute(last.handlers[i]),
                        last.handlers[i].error_key),
                [ last.handlers[i] EXCEPT !.pc = "expire_ip" ])

\* r.expire("ver:%s:ip_%s:errors_by_minute:%s", fast_key_expiry_seconds)
ExpireIp(i) ==
    HandlerStep(i, "expire_ip",
                RExpire(r, IpErrorsByMinute(last.handlers[i]),
                        now + fast_key_expiry_seconds),
                [ last.handlers[i] EXCEPT !.pc = "read_ip" ])

\* num_ip_errors = r.zscore("ver:%s:ip_%s:errors_by_minute:%s", error_key)
\* and the test num_ip_errors == 1
ReadIp(i) ==
    HandlerStep(i, "read_ip", r,
                [ last.handlers[i] EXCEPT
                    !.num_ip_errors = Score(r, IpErrorsByMinute(last.handlers[i]),
                                            last.handlers[i].error_key),
                    !.pc = IF Score(r, IpErrorsByMinute(last.handlers[i]),
                                    last.handlers[i].error_key) = 1
                           THEN "incr_unique" ELSE "done" ])

\* r.zincrby("ver:%s:unique_errors_by_minute:%s", error_key, 1)
IncrUnique(i) ==
    HandlerStep(i, "incr_unique",
                ZIncrBy(r, UniqueErrorsByMinute(last.handlers[i]),
                        last.handlers[i].error_key),
                [ last.handlers[i] EXCEPT !.pc = "expire_unique" ])

\* r.expire("ver:%s:unique_errors_by_minute:%s", KEY_EXPIRY_SECONDS)
ExpireUnique(i) ==
    HandlerStep(i, "expire_unique",
                RExpire(r, UniqueErrorsByMinute(last.handlers[i]),
                        now + KEY_EXPIRY_SECONDS),
                [ last.handlers[i] EXCEPT !.pc = "done" ])

\* Occurrences of one error from two addresses and an occurrence of a
\* blacklisted URI, for one minute of one version.
HandlerScenarios ==
    { [ name |-> "handlers",
        logs |-> { LogDirective1, LogDirective22, LogBlacklisted },
        versions |-> { << "v001" >> } ] }

InitHandlers == InitWith(HandlerScenarios)

NextHandlers ==
    \E i \in 1..NumHandlers :
       \/ \E version \in scenario.versions, minute \in Minutes,
             log \in scenario.logs :
             HandlerUpdate(i, version, minute, log)
       \/ IncrMinute(i)
       \/ ExpireMinute(i)
       \/ IncrIp(i)
       \/ ExpireIp(i)
       \/ ReadIp(i)
       \/ IncrUnique(i)
       \/ ExpireUnique(i)

SpecHandlers == InitHandlers /\ [][NextHandlers]_vars

(***************************************************************************)
(* detect_anomalies.multiprocess_map: the caller and its worker processes. *)
(* The input queue holds one item at most, the output queue any number.    *)
(* An item of the input queue is an index with its argument or the         *)
(* sentinel (None, None).  func is any function that returns.              *)
(***************************************************************************)
MaxArgs == 3
MaxProcesses == 2

func(args) == args * args

Item(index, args) == [ stop |-> FALSE, index |-> index, args |-> args ]

Sentinel == [ stop |-> TRUE, index |-> 0, args |-> 0 ]

Output(index, output) == [ index |-> index, output |-> output ]

Waiting == [ pc |-> "get", item |-> Sentinel ]

\* A bug that returns the outputs in the order they arrived in.
RECURSIVE Unsorted(_)
Unsorted(res) ==
    IF res = << >> THEN << >>
    ELSE << Head(res).output >> \o Unsorted(Tail(res))

\* [output for index, output in sorted(res)]
RECURSIVE SortedOutputs(_)
SortedOutputs(res) ==
    IF res = << >> THEN << >>
    ELSE LET first == CHOOSE i \in 1..Len(res) :
                         \A j \in 1..Len(res) :
                            \/ res[i].index < res[j].index
                            \/ /\ res[i].index = res[j].index
                               /\ res[i].output <= res[j].output
         IN  << res[first].output >>
             \o SortedOutputs([ j \in 1..(Len(res) - 1) |->
                                  IF j < first THEN res[j] ELSE res[j + 1] ])

\* A step of the call that leaves the call as m.
MapStep(m) ==
    /\ last' = [ last EXCEPT !.op = "multiprocess_map", !.map = m ]
    /\ UNCHANGED << r, caches, now, scenario, history, counters >>

\* multiprocess_map is called: the queues are made and the processes started.
MultiprocessMap(args_list, num_processes) ==
    /\ last.map.pc = "idle"
    /\ MapStep([ NoMap EXCEPT
                   !.pc = "put", !.args_list = args_list,
                   !.num_processes = num_processes,
                   !.processes = [ w \in 1..num_processes |-> Waiting ] ])

\* input_queue.put((index, args)) of the caller, for the next argument.
PutArgs ==
    /\ last.map.pc = "put"
    /\ last.map.sent < Len(last.map.args_list)
    /\ last.map.input_queue = << >>
    /\ MapStep([ last.map EXCEPT
                   !.input_queue = << Item(last.map.sent + 1,
                                           last.map.args_list[last.map.sent + 1]) >>,
                   !.sent = @ + 1 ])

\* input_queue.put((None, None)) of the caller, once per process.
PutStop ==
    /\ last.map.pc = "put"
    /\ last.map.sent = Len(last.map.args_list)
    /\ last.map.stops < last.map.num_processes
    /\ last.map.input_queue = << >>
    /\ MapStep([ last.map EXCEPT !.input_queue = << Sentinel >>,
                                 !.stops = @ + 1 ])

\* output_queue.get() of the caller, len(sent) times.
GetOutput ==
    /\ last.map.pc = "put"
    /\ last.map.sent = Len(last.map.args_list)
    /\ last.map.stops = last.map.num_processes
    /\ Len(last.map.res) < last.map.sent
    /\ last.map.output_queue # << >>
    /\ MapStep([ last.map EXCEPT
                   !.res = Append(@, Head(last.map.output_queue)),
                   !.output_queue = Tail(@) ])

\* process.join() for every process, and the return of the sorted outputs.
JoinAndReturn ==
    /\ last.map.pc = "put"
    /\ last.map.sent = Len(last.map.args_list)
    /\ last.map.stops = last.map.num_processes
    /\ Len(last.map.res) = last.map.sent
    /\ \A w \in 1..last.map.num_processes : last.map.processes[w].pc = "exited"
    /\ MapStep([ last.map EXCEPT !.pc = "returned",
                                 !.returned = SortedOutputs(last.map.res) ])

\* multiprocess_wrapper: index, args = input_queue.get(), and the break at
\* the sentinel.
WrapperGet(w) ==
    /\ last.map.pc = "put"
    /\ w \in 1..last.map.num_processes
    /\ last.map.processes[w].pc = "get"
    /\ last.map.input_queue # << >>
    /\ MapStep([ last.map EXCEPT
                   !.input_queue = Tail(@),
                   !.processes[w] =
                       [ pc |-> IF Head(last.map.input_queue).stop
                                THEN "exited" ELSE "run",
                         item |-> Head(last.map.input_queue) ] ])

\* multiprocess_wrapper: output_queue.put((index, func(args)))
WrapperPut(w) ==
    /\ last.map.pc = "put"
    /\ w \in 1..last.map.num_processes
    /\ last.map.processes[w].pc = "run"
    /\ MapStep([ last.map EXCEPT
                   !.output_queue =
                       Append(@, Output(last.map.processes[w].item.index,
                                        func(last.map.processes[w].item.args))),
                   !.processes[w] = Waiting ])

\* The lists of at most MaxArgs arguments.
ArgsLists == UNION { [ 1..n -> { 2, 3 } ] : n \in 0..MaxArgs }

MapScenarios == { [ name |-> "map", args_lists |-> ArgsLists ] }

InitMap == InitWith(MapScenarios)

Caller == PutArgs \/ PutStop \/ GetOutput \/ JoinAndReturn

Wrapper(w) == WrapperGet(w) \/ WrapperPut(w)

NextMap ==
    \/ \E args_list \in scenario.args_lists, num_processes \in 1..MaxProcesses :
          MultiprocessMap(args_list, num_processes)
    \/ Caller
    \/ \E w \in 1..MaxProcesses : Wrapper(w)

SpecMap == InitMap /\ [][NextMap]_vars

\* The caller and every worker process get to run when they can.
SpecMapFair ==
    /\ SpecMap
    /\ WF_vars(Caller)
    /\ \A w \in 1..MaxProcesses : WF_vars(Wrapper(w))

(***************************************************************************)
(* Properties.                                                             *)
(***************************************************************************)
IsRecord(l) ==
    l.op \in { "record_occurrence_during_monitoring",
               "record_occurrence_from_errors" }

\* The record call answered a key: its resource is not blacklisted.
Resolved(l) == IsRecord(l) /\ l.error_key # NoKey

TitleOf(log) == ParseTitle(log.message)

\* The keys under which a payload is stored.
ErrorClasses(db) == { k[2] : k \in { x \in DOMAIN db.data : x[1] = "error" } }

\* The keys of the registered classes that share their key or one of
\* their identifiers with the definition d, in the caches or in the
\* database.
SharedKeys(cs, db, d) ==
    (IF d.key \in DOMAIN cs.def \/ Exists(db, << "error", d.key >>)
     THEN { d.key } ELSE {})
    \cup { cs.id[i][d[ERROR_ID_KEYS[i]]] :
           i \in { j \in 1..4 : /\ d[ERROR_ID_KEYS[j]] # NoText
                                /\ d[ERROR_ID_KEYS[j]] \in DOMAIN cs.id[j] } }
    \cup { RedisIdTables(db)[i][d[ERROR_ID_KEYS[i]]] :
           i \in { j \in 1..4 : /\ d[ERROR_ID_KEYS[j]] # NoText
                                /\ d[ERROR_ID_KEYS[j]] \in
                                     DOMAIN RedisIdTables(db)[j] } }

\* The number of calls stored under the version name that resolved to the
\* key: the log calls for that version and, for a name that begins with
\* MON_, the monitoring calls for the rest of the name.
CallsUnder(name, error_key) ==
    Count(history.occ, << "errors", name, error_key >>) +
    (IF name # << >> /\ Head(name) = "MON_"
     THEN Count(history.occ, << "monitor", Tail(name), error_key >>)
     ELSE 0)

KnownNames ==
    { k[2] : k \in { x \in DOMAIN r.data : x[1] = "ver:errors" } }
    \cup UNION { DOMAIN r.data[k] : k \in { x \in DOMAIN r.data : x[1] = "versions" } }
    \cup { IF o[1] = "monitor" THEN MON(o[2]) ELSE o[2] : o \in DOMAIN history.occ }

KnownKeys ==
    { k[2] : k \in { x \in DOMAIN r.data : x[1] = "versions" } }
    \cup UNION { DOMAIN r.data[k] : k \in { x \in DOMAIN r.data : x[1] = "ver:errors" } }
    \cup { o[3] : o \in DOMAIN history.occ }

\* C1: after any sequence of record calls, without expiry, the score of the
\* version name V (MON_-prefixed for the monitoring calls) in the versions
\* sorted set of the key K is the number of non-blacklisted calls made
\* under V that resolved to K, and so is the score of K in ver:V:errors.
C1_VersionScores ==
    \A name \in KnownNames, error_key \in KnownKeys :
        /\ Score(r, << "versions", error_key >>, name) = CallsUnder(name, error_key)
        /\ Score(r, << "ver:errors", name >>, error_key) = CallsUnder(name, error_key)

\* Three calls were made, the last one blacklisted, the other two
\* monitoring calls that resolved to one key.
C1_Witness ==
    /\ counters.records = 3
    /\ IsRecord(last) /\ last.error_key = NoKey
    /\ \E o \in DOMAIN history.occ :
          /\ o[1] = "monitor"
          /\ history.occ[o] = 2
          /\ Score(r, << "versions", o[3] >>, MON(o[2])) = 2

\* Same status and level, and titles that differ only in their runs of
\* digits.
SameUpToDigits(a, b) ==
    /\ a.status = b.status
    /\ a.level = b.level
    /\ SubDigits(TitleOf(a), FALSE) = SubDigits(TitleOf(b), FALSE)

C3_JoinsTheClassOfItsIdentifier ==
    [][ (Resolved(last') /\ NonCombinable(TitleOf(last'.log)) = 0)
        => LET d == DefOf(last'.log)
           IN  /\ \A i \in { 2, 3 } :
                     ( /\ d[ERROR_ID_KEYS[i]] \in DOMAIN RedisIdTables(r)[i]
                       /\ Exists(r, << "error",
                                       RedisIdTables(r)[i][d[ERROR_ID_KEYS[i]]] >>) )
                     => /\ last'.error_key =
                             RedisIdTables(r)[i][d[ERROR_ID_KEYS[i]]]
                        /\ ErrorClasses(r') = ErrorClasses(r)
               /\ SharedKeys(caches, r, d) = {}
                     => /\ last'.error_key = d.key
                        /\ d.key \notin ErrorClasses(r)
                        /\ d.key \in ErrorClasses(r') ]_vars

\* C3 amended: an occurrence that shares its key or an identifier with
\* registered classes resolves to the key of one of them, which need not
\* be the class of its id1 or of its id2 when these differ, and no other
\* class appears; an occurrence that shares nothing gets its own new key.
C3_JoinsOneClassOfItsIdentifiers ==
    [][ Resolved(last')
        => LET d == DefOf(last'.log)
           IN  IF SharedKeys(caches, r, d) = {}
               THEN /\ last'.error_key = d.key
                    /\ d.key \notin ErrorClasses(r)
                    /\ d.key \in ErrorClasses(r')
               ELSE /\ last'.error_key \in SharedKeys(caches, r, d)
                    /\ ErrorClasses(r') = ErrorClasses(r) \cup { last'.error_key }
      ]_vars

\* An occurrence whose id1 and id2 are registered for two classes was
\* recorded and joined the class of its id1.
C3_Witness ==
    /\ Resolved(last)
    /\ LET d == DefOf(last.log)
       IN  /\ NonCombinable(TitleOf(last.log)) = 0
           /\ d.id1 \in DOMAIN RedisIdTables(r)[2]
           /\ d.id2 \in DOMAIN RedisIdTables(r)[3]
           /\ RedisIdTables(r)[2][d.id1] # RedisIdTables(r)[3][d.id2]
           /\ last.error_key = RedisIdTables(r)[2][d.id1]
           /\ last.error_key # d.key
           /\ ErrorClasses(r) = { RedisIdTables(r)[2][d.id1],
                                  RedisIdTables(r)[3][d.id2] }

\* The titles C4 speaks of.
NeverCombined(title) ==
    Contains(title, NoAttributeRe) \/ StartsWith(title, SignatureRe)

\* C4: an occurrence whose title contains "object has no attribute" or
\* begins with "Error in signature for" has no id1, id2 and id3; it
\* resolves to an existing key only when its key or its id0 is
\* registered, and otherwise makes a new class under its own key.
C4_NonCombinableByKeyOrId0 ==
    [][ (Resolved(last') /\ NeverCombined(TitleOf(last'.log)))
        => LET d == DefOf(last'.log)
               by_key == \/ d.key \in DOMAIN caches.def
                         \/ Exists(r, << "error", d.key >>)
               by_id0 == { caches.id[1][x] : x \in { d.id0 } \cap DOMAIN caches.id[1] }
                         \cup { RedisIdTables(r)[1][x] :
                                x \in { d.id0 } \cap DOMAIN RedisIdTables(r)[1] }
           IN  /\ d.id1 = NoText /\ d.id2 = NoText /\ d.id3 = NoText
               /\ IF by_key THEN last'.error_key = d.key
                  ELSE IF by_id0 # {} THEN last'.error_key \in by_id0
                  ELSE /\ last'.error_key = d.key
                       /\ d.key \notin ErrorClasses(r)
                       /\ d.key \in ErrorClasses(r') ]_vars

\* "Error while parsing object has no attribute directive 1" was recorded
\* after "Error while parsing directive 1" and made its own class.
C4_Witness ==
    /\ Resolved(last)
    /\ last.log = LogNoAttribute
    /\ last.error_key = DefOf(LogNoAttribute).key
    /\ DefOf(LogDirective1).key \in ErrorClasses(r)
    /\ Count(history.occ, << "errors", << "v001" >>, last.error_key >>) +
       Count(history.occ, << "monitor", << "v001" >>, last.error_key >>) = 1

\* C5: a record call whose resource begins with a blacklisted URI answers
\* no key and leaves the database and the caches as they were; a key that
\* GET /error/<key> finds has had an occurrence that was not blacklisted.
C5_BlacklistedWritesNothing ==
    [][ /\ (IsRecord(last') /\ IsBlacklisted(last'.log.resource))
           => /\ last'.error_key = NoKey
              /\ r' = r
              /\ caches' = caches
        /\ (last'.op = "view_error" /\ last'.code = 200)
           => last'.error_key \in DOMAIN history.latest ]_vars

\* A blacklisted occurrence was recorded into a database that holds errors.
C5_Witness ==
    /\ IsRecord(last)
    /\ IsBlacklisted(last.log.resource)
    /\ last.error_key = NoKey
    /\ ErrorClasses(r) # {}

C7_ReadsLatestOccurrence ==
    (last.op = "view_error" /\ last.code = 200)
    => /\ last.error_key \in DOMAIN history.latest
       /\ last.error_key \in DOMAIN history.creator
       /\ last.error_def.title = history.latest[last.error_key].title
       /\ last.error_def.status = history.latest[last.error_key].status
       /\ last.error_def.level = history.latest[last.error_key].level
       /\ \A i \in 1..4 :
             last.error_def[ERROR_ID_KEYS[i]] =
                 history.creator[last.error_key][ERROR_ID_KEYS[i]]
       /\ last.error_def.key = history.creator[last.error_key].key

\* The tags of the keys that are kept per version; the version name is
\* their second component.
PerVersionTags ==
    { "ver:errors", "ver:seen", "ver:errors_by_minute",
      "ver:ip:errors_by_minute", "ver:unique_errors_by_minute",
      "ver:error:ips", "ver:error:uris", "ver:error:routes",
      "ver:error:modules", "ver:error:stacks:counts",
      "ver:error:stacks:msgs", "ver:error:hours_seen" }

\* The version names whose keys, or whose score in the versions sorted
\* set of some error, differ between the two databases.
ChangedNames(db, db2) ==
    { k[2] : k \in { x \in DOMAIN db.data \cup DOMAIN db2.data :
                       /\ x[1] \in PerVersionTags
                       /\ \/ x \notin DOMAIN db.data
                          \/ x \notin DOMAIN db2.data
                          \/ db.data[x] # db2.data[x]
                          \/ Count(db.ttl, x) # Count(db2.ttl, x) } }
    \cup UNION { { v \in Members(db, k) \cup Members(db2, k) :
                     Score(db, k, v) # Score(db2, k, v) } :
                 k \in { x \in DOMAIN db.data \cup DOMAIN db2.data :
                           x[1] = "versions" } }

ListedKeys(l) == { e.error_def.key : e \in l.listed }

\* C8: a POST /monitor for the version V changes per-version keys and
\* version scores under MON_V only, a warehouse record for V changes them
\* under V only (never under MON_V), and GET /version_errors/V lists only
\* errors with a call stored under the name V, none that was seen only
\* while monitoring V.
C8_MonitoringIsolated ==
    [][ /\ last'.op = "monitor"
           => ChangedNames(r, r') \subseteq { MON(last'.version) }
        /\ last'.op = "record_occurrence_from_errors"
           => /\ ChangedNames(r, r') \subseteq { last'.version }
              /\ MON(last'.version) \notin ChangedNames(r, r')
        /\ last'.op = "view_version_errors"
           => \A error_key \in ListedKeys(last') :
                 CallsUnder(last'.version, error_key) > 0 ]_vars

\* "Error while parsing directive 1" was posted to /monitor for v001 and
\* "Other thing broke foo bar baz" came from the warehouse for v001:
\* /version_errors/v001 lists the second one alone.
C8_Witness ==
    /\ last.op = "view_version_errors"
    /\ last.version = << "v001" >>
    /\ Count(history.occ, << "monitor", << "v001" >>, DefOf(LogDirective1).key >>) > 0
    /\ Count(history.occ, << "errors", << "v001" >>, DefOf(LogOther).key >>) > 0
    /\ ListedKeys(last) = { DefOf(LogOther).key }

\* The counts of the error in the minute of each of the versions.
HistoricalCounts(cs, db, versions, minute, error_key) ==
    [ i \in 1..Len(versions) |->
        Count(CountsByKey(get_monitoring_errors(cs, db, versions[i], minute).errors),
              error_key) ]

\* The probability of elevation of the error of the minute is at least
\* 0.9995, given the versions that have posted the minute.
Elevated(cs, db, e, verify_versions, minute) ==
    count_is_elevated_probability(
        HistoricalCounts(cs, db, verify_versions, minute, e.error.key),
        e.count, SignificanceOdds).elevated

\* Significance as the specification states it.
SignificantAsStated(cs, db, e, verify_versions, orig_versions, minute) ==
    /\ Elevated(cs, db, e, verify_versions, minute)
    /\ \/ e.count >= 5
       \/ /\ e.count \in 2..4
          /\ ~SeenBefore(Fields(db, << "versions", e.error.key >>), orig_versions)

ReportedKeys(l) == { s.key : s \in l.significant }

VerifyVersions(db, l) ==
    SelectSeq(l.orig_versions,
              LAMBDA v : check_monitoring_data_received(db, v, l.minute))

RECURSIVE Occurrences(_, _)
Occurrences(keys, error_key) ==
    IF keys = << >> THEN 0
    ELSE (IF Head(keys) = error_key THEN 1 ELSE 0) + Occurrences(Tail(keys), error_key)

\* C10, for an error whose title is not of the blacklist of the server:
\* when v000 has posted the minute without the error and v001 has then
\* posted six occurrences of it for the minute, the results for v001
\* against v000 report the error.
C10_SixOccurrencesSignificant ==
    ( /\ last.op = "monitor_results"
      /\ last.version = << "v001" >>
      /\ last.orig_versions = << << "v000" >> >>
      /\ Len(history.posts) = 2
      /\ history.posts[1].version = << "v000" >>
      /\ history.posts[2].version = << "v001" >>
      /\ history.posts[1].minute = last.minute
      /\ history.posts[2].minute = last.minute )
    => \A error_key \in { history.posts[2].keys[i] :
                          i \in 1..Len(history.posts[2].keys) } :
          ( /\ Occurrences(history.posts[1].keys, error_key) = 0
            /\ Occurrences(history.posts[2].keys, error_key) = 6
            /\ error_key \in DOMAIN history.latest
            /\ ~matches_blacklist(history.latest[error_key].title, 6) )
          => error_key \in ReportedKeys(last)

\* The reports of the results for the error key.
ReportsOf(l, error_key) == { s \in l.significant : s.key = error_key }

\* C11, for an error whose title is not of the blacklist of the server:
\* when v000 has posted the minute without the error, the error was never
\* seen under v000, and v001 has then posted exactly two occurrences of it
\* for the minute, the results for v001 against v000 hold exactly one
\* report of the error, with count 2.
C11_TwoOccurrencesOfNewError ==
    ( /\ last.op = "monitor_results"
      /\ last.version = << "v001" >>
      /\ last.orig_versions = << << "v000" >> >>
      /\ Len(history.posts) = 2
      /\ history.posts[1].version = << "v000" >>
      /\ history.posts[2].version = << "v001" >>
      /\ history.posts[1].minute = last.minute
      /\ history.posts[2].minute = last.minute )
    => \A error_key \in { history.posts[2].keys[i] :
                          i \in 1..Len(history.posts[2].keys) } :
          ( /\ Occurrences(history.posts[1].keys, error_key) = 0
            /\ Occurrences(history.posts[2].keys, error_key) = 2
            /\ CallsUnder(<< "v000" >>, error_key) = 0
            /\ CallsUnder(MON(<< "v000" >>), error_key) = 0
            /\ error_key \in DOMAIN history.latest
            /\ ~matches_blacklist(history.latest[error_key].title, 2) )
          => /\ Cardinality(ReportsOf(last, error_key)) = 1
             /\ \A s \in ReportsOf(last, error_key) : s.monitor_count = 2

\* The verify versions of the call for which a POST /monitor for its
\* minute was made.
PostedVersions(l) ==
    SelectSeq(l.orig_versions,
              LAMBDA v : \E i \in 1..Len(history.posts) :
                            /\ history.posts[i].version = v
                            /\ history.posts[i].minute = l.minute)

\* C12: the results are empty when no POST /monitor was made for the
\* minute of any of the verify versions, whatever the counts of the
\* candidate; the expected count of a report is the mean of the counts of
\* the verify versions that have posted the minute (at least 1), the
\* others being left out of the mean.
C12_NoReferenceNoReport ==
    [][ last'.op = "monitor_results"
        => /\ PostedVersions(last') = << >> => last'.significant = {}
           /\ \A s \in last'.significant :
                 LET counts == HistoricalCounts(caches, r, PostedVersions(last'),
                                                last'.minute, s.key)
                 IN  s.expected_num * Len(counts) =
                         s.expected_den *
                         (IF SumSeq(counts) < Len(counts) THEN Len(counts)
                          ELSE SumSeq(counts)) ]_vars

\* v001 has six unique occurrences of the directive error in the minute,
\* nothing was posted for v000, and the results for v001 against v000 are
\* empty.
C12_Witness ==
    /\ last.op = "monitor_results"
    /\ last.version = << "v001" >>
    /\ last.orig_versions = << << "v000" >> >>
    /\ PostedVersions(last) = << >>
    /\ Score(r, << "ver:unique_errors_by_minute", MON(<< "v001" >>), last.minute >>,
             DefOf(BatchDistinctIps[1]).key) = 6
    /\ last.significant = {}

\* The sum of the scores of the members of a sorted set.
RECURSIVE SumScores(_, _, _)
SumScores(db, k, members) ==
    IF members = {} THEN 0
    ELSE LET m == CHOOSE x \in members : TRUE
         IN  Score(db, k, m) + SumScores(db, k, members \ {m})

\* The number of occurrences counted in the cell of the version and the
\* minute.
CellTotal(db, version, minute) ==
    SumScores(db, << "ver:errors_by_minute", MON(version), minute >>,
              Members(db, << "ver:errors_by_minute", MON(version), minute >>))

\* The number of logs of the batch whose resource is not blacklisted.
Countable(error_logs) ==
    Len(SelectSeq(error_logs, LAMBDA log : ~IsBlacklisted(log.resource)))

\* The request was a POST /monitor answered with 200 for the cell.
PostedTo(l, version, minute) ==
    /\ l.op = "monitor"
    /\ l.code = 200
    /\ l.version = version
    /\ l.minute = minute

\* C13: a POST /monitor for the cell (V, m) answered with 200, with or
\* without logs, leaves the seen flag of the cell set and all its logs
\* counted in the cell on top of what the cell held; the flag of a cell
\* gets set by such a POST only (never by a POST that stopped before its
\* last log), and once set it stays set until the seen hash expires.
C13_SeenAfterAllLogs ==
    [][ \A version \in scenario.versions, minute \in scenario.minutes :
          /\ PostedTo(last', version, minute)
             => /\ check_monitoring_data_received(r', version, minute)
                /\ CellTotal(r', version, minute) =
                       CellTotal(r, version, minute) +
                       Countable(last'.params.logs)
                /\ \A k \in Members(r, << "ver:errors_by_minute", MON(version),
                                          minute >>) :
                      Score(r', << "ver:errors_by_minute", MON(version), minute >>, k)
                      >= Score(r, << "ver:errors_by_minute", MON(version), minute >>, k)
          /\ ( /\ ~check_monitoring_data_received(r, version, minute)
               /\ check_monitoring_data_received(r', version, minute) )
             => PostedTo(last', version, minute)
          /\ ( /\ check_monitoring_data_received(r, version, minute)
               /\ ~check_monitoring_data_received(r', version, minute) )
             => /\ last'.op = "tick"
                /\ r.ttl[<< "ver:seen", MON(version) >>] <= now' ]_vars

\* Three batches were posted for minute 1 of v001, one of them with a
\* blacklisted log and the last one without logs: the cell is marked and
\* holds the four occurrences of the first two.
C13_Witness ==
    /\ Len(history.posts) = 3
    /\ \A i \in 1..3 : history.posts[i].minute = 1
    /\ PostedTo(last, << "v001" >>, 1)
    /\ last.params.logs = BatchEmpty
    /\ check_monitoring_data_received(r, << "v001" >>, 1)
    /\ CellTotal(r, << "v001" >>, 1) = 4

\* The monitoring calls for the cell that resolved to the key, one entry
\* of history.cells per client address.
CellCalls(version, minute, error_key) ==
    { c \in DOMAIN history.cells :
        /\ c[1] = "monitor"
        /\ c[2] = version
        /\ c[3] = minute
        /\ c[5] = error_key }

RECURSIVE SumCalls(_)
SumCalls(calls) ==
    IF calls = {} THEN 0
    ELSE LET c == CHOOSE x \in calls : TRUE
         IN  history.cells[c] + SumCalls(calls \ {c})

\* The keys with a call or a score in the cell.
CellKeys(version, minute) ==
    { c[5] : c \in { x \in DOMAIN history.cells : x[1] = "monitor" } }
    \cup Members(r, << "ver:errors_by_minute", MON(version), minute >>)
    \cup Members(r, << "ver:unique_errors_by_minute", MON(version), minute >>)

\* C14: as long as no key has expired, the score of K in
\* ver:MON_V:unique_errors_by_minute:m is the number of distinct client
\* addresses with a non-blacklisted occurrence resolved to K for (V, m),
\* the score of K in ver:MON_V:errors_by_minute:m is the number of such
\* occurrences, and the first never exceeds the second.
C14_UniqueCountsAddresses ==
    counters.ticks = 0
    => \A version \in scenario.versions, minute \in scenario.minutes :
          \A error_key \in CellKeys(version, minute) :
             /\ Score(r, << "ver:unique_errors_by_minute", MON(version), minute >>,
                      error_key)
                = Cardinality(CellCalls(version, minute, error_key))
             /\ Score(r, << "ver:errors_by_minute", MON(version), minute >>,
                      error_key)
                = SumCalls(CellCalls(version, minute, error_key))
             /\ Score(r, << "ver:unique_errors_by_minute", MON(version), minute >>,
                      error_key)
                <= Score(r, << "ver:errors_by_minute", MON(version), minute >>,
                         error_key)

\* The directive error came twice from 1.1.1.1 and once from 2.2.2.2 in
\* minute 0 of v001 and nothing else was posted for that minute: three
\* occurrences, two addresses.
C14_Witness ==
    /\ counters.ticks = 0
    /\ last.op = "monitor"
    /\ last.params.logs = BatchRepeat
    /\ Score(r, << "ver:errors_by_minute", MON(<< "v001" >>), 0 >>,
             DefOf(LogDirective1).key) = 3
    /\ Score(r, << "ver:unique_errors_by_minute", MON(<< "v001" >>), 0 >>,
             DefOf(LogDirective1).key) = 2
    /\ Cardinality(CellCalls(<< "v001" >>, 0, DefOf(LogDirective1).key)) = 2

\* The batch in the order f, a permutation of its positions.
Reordered(error_logs, f) == [ i \in 1..Len(error_logs) |-> error_logs[f[i]] ]

\* The scores of the keys in the cell of the version and the minute.
CellScores(db, version, minute) ==
    IF Exists(db, << "ver:errors_by_minute", MON(version), minute >>)
    THEN db.data[<< "ver:errors_by_minute", MON(version), minute >>]
    ELSE << >>

\* The keys the logs of the batch resolve to when the batch is posted in
\* the order f, by position in the batch.
KeysInOrder(cs, db, t, version, minute, error_logs, f) ==
    LET keys == PostedLogs(NoHistory, cs, db, t, version, minute,
                           Reordered(error_logs, f)).keys
    IN  [ i \in 1..Len(error_logs) |->
            keys[CHOOSE j \in 1..Len(error_logs) : f[j] = i] ]

\* C15 as stated: the scores of the keys in ver:MON_V:errors_by_minute:m
\* after a batch was recorded are the scores any other order of the batch
\* would have given.
C15_OrderIndependent ==
    [][ (last'.op = "monitor" /\ last'.code = 200)
        => \A f \in Permutations(1..Len(last'.params.logs)) :
              CellScores(monitor(caches, r, now, last'.version, last'.minute,
                                 Reordered(last'.params.logs, f)),
                         last'.version, last'.minute)
              = CellScores(r', last'.version, last'.minute) ]_vars

\* C15 amended: the sum of the scores in ver:MON_V:errors_by_minute:m
\* after a batch was recorded is the sum any other order of the batch
\* would have given, and so are the scores of the keys for every order in
\* which each log resolves to the key it resolved to.
C15_OrderIndependentTotals ==
    [][ (last'.op = "monitor" /\ last'.code = 200)
        => \A f \in Permutations(1..Len(last'.params.logs)) :
              LET db == monitor(caches, r, now, last'.version, last'.minute,
                                Reordered(last'.params.logs, f))
                  same == KeysInOrder(caches, r, now, last'.version, last'.minute,
                                      last'.params.logs, f)
                          = history'.posts[Len(history'.posts)].keys
              IN  /\ CellTotal(db, last'.version, last'.minute)
                     = CellTotal(r', last'.version, last'.minute)
                  /\ same => CellScores(db, last'.version, last'.minute)
                             = CellScores(r', last'.version, last'.minute) ]_vars

\* "Error while parsing directive 1", "Other thing broke foo bar baz" and
\* "Error while parsing foo bar baz" were posted in this order to an empty
\* database and count 2 and 1 under two keys; posted with the third one
\* first they would count 3 under one key.
C15_Witness ==
    /\ last.op = "monitor"
    /\ last.code = 200
    /\ last.params.logs = BatchChain
    /\ Len(history.posts) = 1
    /\ counters = [ records |-> 1, reads |-> 0, ticks |-> 0 ]
    /\ CellScores(r, last.version, last.minute)
       = (DefOf(LogDirective1).key :> 2) @@ (DefOf(LogOther).key :> 1)
    /\ CellScores(monitor(EmptyCaches, EmptyDb, 0, last.version, last.minute,
                          << LogFoo, LogDirective1, LogOther >>),
                  last.version, last.minute)
       = (DefOf(LogFoo).key :> 3)

\* The requests that read: GET /error/<key>, GET /errors/<v>/monitor/<m>
\* and GET /version_errors/<v>.
IsGet(l) == l.op \in { "view_error", "monitor_results", "view_version_errors" }

\* C16: a GET leaves the database as it was, and a GET /error/<key> made
\* right after the same GET answers what the first one answered.
C16_ReadsChangeNothing ==
    [][ /\ IsGet(last') => r' = r
        /\ ( /\ last.op = "view_error"
             /\ last'.op = "view_error"
             /\ last'.error_key = last.error_key )
           => /\ last'.code = last.code
              /\ last'.error_def = last.error_def ]_vars

\* C17: GET /error/<key> answers 404 or 200 and nothing else, and 200
\* comes with the definition of the key.
C17_ViewErrorAnswers ==
    last.op = "view_error"
    => /\ last.code \in { 200, 404 }
       /\ last.code = 200 => last.error_def # NoDef

\* The body is not a JSON object, or it lacks one of the parameters.
InvalidBody(params) ==
    \/ params.json # "object"
    \/ ~({ "version", "minute", "logs" } \subseteq params.fields)

\* C18: a POST /monitor whose body is not a JSON object or lacks version,
\* minute or logs is answered with 400 and leaves the database as it was.
C18_InvalidBodyIs400 ==
    [][ (last'.op = "monitor" /\ InvalidBody(last'.params))
        => /\ last'.code = 400
           /\ r' = r ]_vars

\* C19: a POST /monitor whose batch holds a log record without one of its
\* fields is answered with 200, counts every other record of the batch
\* that is not blacklisted in the cell, those after the malformed record
\* too, and marks the cell as received.
C19_SkipsMalformedRecord ==
    [][ ( /\ last'.op = "monitor"
          /\ ~InvalidBody(last'.params)
          /\ last'.params.nulls = {}
          /\ ~LoopCompletes(last'.params.logs) )
        => /\ last'.code = 200
           /\ check_monitoring_data_received(r', last'.version, last'.minute)
           /\ CellTotal(r', last'.version, last'.minute) =
                  CellTotal(r, last'.version, last'.minute) +
                  Countable(SelectSeq(last'.params.logs, WellFormed)) ]_vars

\* The log hours of the warehouse calls that resolved to the key.
HoursOf(error_key) ==
    { c[3] : c \in { x \in DOMAIN history.cells :
                       x[1] = "errors" /\ x[5] = error_key } }

\* C20: for a key all of whose warehouse calls had log hours inside the
\* expiry window, whatever their order, the first_seen of the summary is
\* the smallest and its last_seen the largest of these log hours.
C20_FirstAndLastSeen ==
    \A error_key \in { c[5] : c \in DOMAIN history.cells } :
       ( /\ HoursOf(error_key) # {}
         /\ \A h \in HoursOf(error_key) :
               LogHourInt(h) > get_log_hour_int_expiry(now) )
       => LET info == get_error_summary_info(caches, r, error_key).info
          IN  /\ info.first_seen \in HoursOf(error_key)
              /\ info.last_seen \in HoursOf(error_key)
              /\ \A h \in HoursOf(error_key) :
                    /\ LogHourInt(info.first_seen) <= LogHourInt(h)
                    /\ LogHourInt(h) <= LogHourInt(info.last_seen)

\* The directive error was recorded for the hours 20141117_10, 20141116_23
\* and 20141117_04, the last call being neither the earliest nor the
\* latest hour.
C20_Witness ==
    /\ last.op = "record_occurrence_from_errors"
    /\ last.log_hour = << 20141117, 4 >>
    /\ HoursOf(last.error_key) =
           { << 20141116, 23 >>, << 20141117, 4 >>, << 20141117, 10 >> }
    /\ get_error_summary_info(caches, r, last.error_key).info.first_seen
       = << 20141116, 23 >>
    /\ get_error_summary_info(caches, r, last.error_key).info.last_seen
       = << 20141117, 10 >>


\* The warehouse calls for the version and the log hour that resolved to
\* the key, one entry of history.cells per client address.
HourCalls(version, log_hour, error_key) ==
    { c \in DOMAIN history.cells :
        /\ c[1] = "errors"
        /\ c[2] = version
        /\ c[3] = log_hour
        /\ c[5] = error_key }

\* The << version, log hour >> pairs of the warehouse calls of the key.
HourCells(error_key) ==
    { << c[2], c[3] >> : c \in { x \in DOMAIN history.cells :
                                   x[1] = "errors" /\ x[5] = error_key } }

RECURSIVE SumVersions(_, _, _)
SumVersions(db, error_key, versions) ==
    IF versions = {} THEN 0
    ELSE LET v == CHOOSE x \in versions : TRUE
         IN  Score(db, << "versions", error_key >>, v)
             + SumVersions(db, error_key, versions \ {v})

\* The versions of the key that are not monitoring versions.
PlainVersions(db, error_key) ==
    { v \in Members(db, << "versions", error_key >>) :
        Len(v) = 0 \/ v[1] # "MON_" }

\* C21: for every key K with warehouse occurrences, the hash
\* ver:V:error:K:hours_seen holds under each log hour H the number of
\* occurrences of K recorded for (V, H), the by_hour_and_version of the
\* summary has exactly one entry per (hour, version) with that count, and
\* the count of the summary is the sum of these counts and the sum of the
\* scores of K's versions that are not monitoring versions.
C21_HoursSeenCounts ==
    \A error_key \in { c[5] : c \in { x \in DOMAIN history.cells : x[1] = "errors" } } :
       LET info == get_error_summary_info(caches, r, error_key).info
       IN  /\ \A vh \in HourCells(error_key) :
                 Score(r, << "ver:error:hours_seen", vh[1], error_key >>, vh[2])
                 = SumCalls(HourCalls(vh[1], vh[2], error_key))
           /\ info.by_hour_and_version =
                 { [ hour |-> vh[2], version |-> vh[1],
                     count |-> SumCalls(HourCalls(vh[1], vh[2], error_key)) ] :
                   vh \in HourCells(error_key) }
           /\ info.count = SumCalls({ c \in DOMAIN history.cells :
                                        c[1] = "errors" /\ c[5] = error_key })
           /\ info.count = SumVersions(r, error_key, PlainVersions(r, error_key))

\* The directive error was recorded twice for one log hour and once for
\* another: the summary has the two entries and counts three.
C21_Witness ==
    /\ last.op = "record_occurrence_from_errors"
    /\ last.error_key # NoKey
    /\ get_error_summary_info(caches, r, last.error_key).info.by_hour_and_version
       = { [ hour |-> << 20141117, 4 >>, version |-> << "v001" >>, count |-> 2 ],
           [ hour |-> << 20141117, 10 >>, version |-> << "v001" >>, count |-> 1 ] }
    /\ get_error_summary_info(caches, r, last.error_key).info.count = 3

\* C22: when logs_from_bigquery has ingested the hour H, the keys returned
\* as new and the keys returned as continuing are disjoint: a key with no
\* warehouse occurrence before the call is returned as new and not as
\* continuing, and a key with an occurrence in an hour before H is returned
\* as continuing and not as new.
C22_NewAndContinuingDisjoint ==
    [][ ( /\ last'.op = "logs_from_bigquery"
          /\ last'.ingest.outcome = "returned" )
        => /\ last'.ingest.new \cap last'.ingest.continuing = {}
           /\ \A error_key \in last'.ingest.new \cup last'.ingest.continuing :
                 /\ HoursOf(error_key) = {}
                    => /\ error_key \in last'.ingest.new
                       /\ error_key \notin last'.ingest.continuing
                 /\ ( \E h \in HoursOf(error_key) :
                         LogHourInt(h) < LogHourInt(last'.log_hour) )
                    => /\ error_key \in last'.ingest.continuing
                       /\ error_key \notin last'.ingest.new ]_vars

\* Whether the hour is in available_logs.
Marked(db, log_hour) == HasField(db, << "available_logs" >>, log_hour)

\* C23: a call of logs_from_bigquery for a log hour that is marked
\* received issues no query, returns no key and changes neither the store
\* nor the clock; a run of the ingestor over a day all of whose hours are
\* marked received queries nothing, sends no alert and leaves the store as
\* it was.
C23_ReceivedHourIsSkipped ==
    [][ /\ ( /\ last'.op = "logs_from_bigquery"
             /\ Marked(r, last'.log_hour) )
           => /\ r' = r
              /\ now' = now
              /\ history' = history
              /\ last'.ingest.attempts = 0
              /\ last'.ingest.handed = 0
              /\ last'.ingest.new \cup last'.ingest.continuing
                 \cup last'.ingest.blacklist = {}
        /\ ( /\ last'.op = "send_alerts_for_errors"
             /\ \A hour \in 0..(DayHours - 1) : Marked(r, << last'.run.date, hour >>) )
           => /\ r' = r
              /\ now' = now
              /\ history' = history
              /\ Len(last'.run.hours) = DayHours
              /\ \A i \in 1..DayHours :
                    /\ last'.run.hours[i].attempts = 0
                    /\ last'.run.hours[i].alerts = {} ]_vars

\* The ingestor ran a second time over a day whose three hours have rows
\* in the warehouse and were all ingested by the first run.
C23_Witness ==
    /\ last.op = "send_alerts_for_errors"
    /\ last.run.outcome = "done"
    /\ Len(last.run.day) = DayHours
    /\ \A i \in 1..DayHours :
          /\ last.run.day[i].responses[1].kind = "complete"
          /\ last.run.day[i].responses[1].rows # << >>
          /\ last.run.hours[i].outcome = "skipped"

\* The rows of deploy versions among the rows: the rows the loop hands to
\* the recorder.
DeployRows(rows) == SelectSeq(rows, LAMBDA row : IsDeployVersion(row.version_id))

\* C24: a call of logs_from_bigquery for an hour H that was not marked
\* received marks H only when it returns, after the loop has passed every
\* row of the query result and handed every row of a deploy version to
\* the recorder; when the query or the recorder raises, H stays unmarked
\* and a later call for H queries the warehouse again.
C24_MarkedAfterAllRows ==
    [][ ( /\ last'.op = "logs_from_bigquery"
          /\ ~Marked(r, last'.log_hour) )
        => /\ last'.ingest.attempts >= 1
           /\ Marked(r', last'.log_hour) <=> last'.ingest.outcome = "returned"
           /\ Marked(r', last'.log_hour)
              => /\ last'.ingest.responses[last'.ingest.attempts].kind = "complete"
                 /\ last'.ingest.rows
                    = last'.ingest.responses[last'.ingest.attempts].rows
                 /\ last'.ingest.handed = Len(DeployRows(last'.ingest.rows))
                 /\ last'.ingest.fails_at \notin
                       { i \in 1..Len(last'.ingest.rows) :
                           IsDeployVersion(last'.ingest.rows[i].version_id) }
           /\ last'.ingest.outcome # "returned"
              => last'.ingest.handed < Len(DeployRows(last'.ingest.rows))
                 \/ last'.ingest.rows = << >> ]_vars

\* The recorder raised at the third row of the hour after the first row
\* was recorded, the hour stayed unmarked, and the next call for the hour
\* queried the warehouse again and recorded its two rows of a deploy.
C24_Witness ==
    /\ last.op = "logs_from_bigquery"
    /\ last.ingest.outcome = "returned"
    /\ ~last.ingest.marked
    /\ last.ingest.handed = 2
    /\ SumCalls({ c \in DOMAIN history.cells :
                    c[1] = "errors" /\ c[3] = last.log_hour }) = 3

\* C25: run_query makes at least one and at most three query attempts;
\* every response before the last attempt was incomplete (jobComplete =
\* false); the rows handed to the caller are the rows of the first
\* complete response, and the caller hands rows to the recorder only when
\* run_query has returned them.
C25_AtMostThreeAttempts ==
    ( /\ last.op = "logs_from_bigquery"
      /\ ~last.ingest.marked )
    => /\ last.ingest.attempts \in 1..QueryAttempts
       /\ \A i \in 1..(last.ingest.attempts - 1) :
             last.ingest.responses[i].kind = "incomplete"
       /\ last.ingest.responses[last.ingest.attempts].kind = "incomplete"
          => /\ last.ingest.attempts = QueryAttempts
             /\ last.ingest.outcome = "TypeError"
       /\ last.ingest.responses[last.ingest.attempts].kind = "complete"
          <=> last.ingest.outcome \in { "returned", "RedisError" }
       /\ last.ingest.responses[last.ingest.attempts].kind = "complete"
          => last.ingest.rows = last.ingest.responses[last.ingest.attempts].rows
       /\ last.ingest.responses[last.ingest.attempts].kind # "complete"
          => /\ last.ingest.rows = << >>
             /\ last.ingest.handed = 0

\* The third attempt brought the first complete response after two
\* incomplete ones, and its row was recorded.
C25_Witness ==
    /\ last.op = "logs_from_bigquery"
    /\ last.ingest.attempts = QueryAttempts
    /\ last.ingest.responses[1].kind = "incomplete"
    /\ last.ingest.responses[2].kind = "incomplete"
    /\ last.ingest.outcome = "returned"
    /\ last.ingest.rows = RowsAgain
    /\ last.ingest.handed = 1

\* C26: when the warehouse answers a query attempt with a transient
\* failure (a 5xx, "try again" or "rate limits exceeded"), run_query makes
\* a further attempt instead of giving the hour up: the call whose second
\* response is complete ingests the hour.
C26_TransientIsRetried ==
    ( /\ last.op = "logs_from_bigquery"
      /\ ~last.ingest.marked
      /\ last.ingest.responses[1].kind = "http"
      /\ last.ingest.responses[1].reason \in TransientReasons )
    => /\ last.ingest.attempts >= 2
       /\ last.ingest.responses[2].kind = "complete"
          => last.ingest.outcome = "returned"

\* The warehouse occurrences recorded for the log hour.
HourTotal(h, log_hour) ==
    { << c, h.cells[c] >> : c \in { x \in DOMAIN h.cells :
                                     x[1] = "errors" /\ x[3] = log_hour } }

\* C27: when, in a run of send_alerts_for_errors, the query of the hour H
\* fails with TableNotFoundError, the run stops at H: H is not marked
\* received, no alert is sent for H, and no later hour of the day is
\* queried, recorded or marked in the run.
C27_NotFoundStopsTheRun ==
    [][ last'.op = "send_alerts_for_errors"
        => \A i \in 1..Len(last'.run.hours) :
              last'.run.hours[i].outcome = "TableNotFoundError"
              => /\ i = Len(last'.run.hours)
                 /\ last'.run.outcome = "stopped"
                 /\ last'.run.hours[i].alerts = {}
                 /\ last'.run.hours[i].handed = 0
                 /\ ~Marked(r', << last'.run.date, i - 1 >>)
                 /\ \A hour \in (i - 1)..(DayHours - 1) :
                       /\ Marked(r', << last'.run.date, hour >>)
                          <=> Marked(r, << last'.run.date, hour >>)
                       /\ HourTotal(history', << last'.run.date, hour >>)
                          = HourTotal(history, << last'.run.date, hour >>) ]_vars

\* The first hour of the day was ingested, the table of the second was
\* not found, and the third hour, whose rows the warehouse has, was not
\* ingested.
C27_Witness ==
    /\ last.op = "send_alerts_for_errors"
    /\ Len(last.run.day) = 3
    /\ last.run.day[3].responses[1].kind = "complete"
    /\ last.run.outcome = "stopped"
    /\ Len(last.run.hours) = 2
    /\ last.run.hours[1].outcome = "returned"
    /\ last.run.hours[2].outcome = "TableNotFoundError"
    /\ ~Marked(r, << last.run.date, 2 >>)

\* C28: when, in a run of send_alerts_for_errors, the query of the hour H
\* fails with UnknownBigQueryError or MissingBigQueryCredentialsError, the
\* run ends with a failure at H: no alert is sent for H and no later hour
\* is ingested in the run.
C28_FatalErrorEndsTheRun ==
    ( last.op = "send_alerts_for_errors" )
    => \A i \in 1..Len(last.run.hours) :
          last.run.hours[i].outcome \in { "UnknownBigQueryError",
                                          "MissingBigQueryCredentialsError" }
          => /\ i = Len(last.run.hours)
             /\ last.run.outcome \notin { "done", "stopped", "running" }
             /\ last.run.hours[i].alerts = {}

\* The count of the last call of record_occurrences_from_requests for the
\* route, the status and the log hour, 0 when there was none.
RecordedCount(route, status, log_hour) ==
    IF << route, status, log_hour >> \in DOMAIN history.requests
    THEN history.requests[<< route, status, log_hour >>]
             [Len(history.requests[<< route, status, log_hour >>])]
    ELSE 0

\* The log hours marked received.
MarkedHours == { history.marks[i] : i \in 1..Len(history.marks) }

\* C29: get_hourly_responses_count(route, status) returns two lists of
\* equal length; the first holds, in chronological order whatever the
\* order in which the hours were marked received, the marked hours from
\* the first one whose count for (route, status) is not zero on, hours of
\* count zero after it included; the second holds for each of these hours
\* its recorded count, 0 where none was recorded.
C29_HourlySeries ==
    \A route \in scenario.routes, status \in scenario.statuses :
       LET series == get_hourly_responses_count(r, route, status)
       IN  /\ Len(series.dates_seen) = Len(series.hourly_responses)
           /\ \A i \in 1..Len(series.dates_seen), j \in 1..Len(series.dates_seen) :
                 i < j => LogHourInt(series.dates_seen[i])
                          < LogHourInt(series.dates_seen[j])
           /\ { series.dates_seen[i] : i \in 1..Len(series.dates_seen) }
              = { h \in MarkedHours :
                    \E first \in MarkedHours :
                       /\ LogHourInt(first) <= LogHourInt(h)
                       /\ RecordedCount(route, status, first) # 0 }
           /\ \A i \in 1..Len(series.dates_seen) :
                 series.hourly_responses[i]
                 = RecordedCount(route, status, series.dates_seen[i])
           /\ ( /\ last.op = "get_hourly_responses_count"
                /\ last.request.route = route
                /\ last.request.status = status )
              => last.request.series = series

\* The three hours were marked received latest first; the first has no
\* count, the second has 12 and the third has none: the series read
\* starts at the second hour and keeps the third.
C29_Witness ==
    /\ last.op = "get_hourly_responses_count"
    /\ last.request.route = "/route1"
    /\ history.marks = << << 20210111, 11 >>, << 20200103, 11 >>, << 20200101, 11 >> >>
    /\ DOMAIN history.requests = { << "/route1", 200, << 20200103, 11 >> >> }
    /\ last.request.series.dates_seen = << << 20200103, 11 >>, << 20210111, 11 >> >>
    /\ last.request.series.hourly_responses = << 12, 0 >>

\* C30: for every (route, status, log hour), after any sequence of calls
\* of record_occurrences_from_requests the stored count is the num_seen
\* of the first call for it.
C30_FirstCountStays ==
    \A key \in DOMAIN history.requests :
       get_responses_count(r, key[1], key[2], key[3]) = history.requests[key][1]

\* The route is in the report of the last call of _get_recent_anomalies.
InReport(l, route) ==
    \E i \in DOMAIN l.anomalies.report : l.anomalies.report[i].route = route

\* The status-200 series of the route after it was cut to a multiple of
\* the period.
OkSeries(db, route) ==
    Series(Truncated(get_hourly_responses_count(db, route, HTTP_OK_CODE).dates_seen,
                     NUM_HOURS_PER_WEEK),
           Truncated(get_hourly_responses_count(db, route,
                                                HTTP_OK_CODE).hourly_responses,
                     NUM_HOURS_PER_WEEK))

\* The score the detector gives to the log hour's own position in the
\* series of the route, 0 when the hour is not in the series.
OwnResidual(db, route, log_hour, detector) ==
    IF LogHourIndex(OkSeries(db, route).dates_seen, log_hour) = -1 THEN 0
    ELSE rpca(OkSeries(db, route).hourly_responses, NUM_HOURS_PER_WEEK,
              detector)[LogHourIndex(OkSeries(db, route).dates_seen, log_hour) + 1]

\* C31: _get_recent_anomalies(H) reports a route if and only if the score
\* of the detector at H's own position in the status-200 series of the
\* route is below -10, and every anomaly it reports has status 200 and the
\* count recorded for the route, status 200 and H.
C31_ReportedIffOwnResidualLow ==
    last.op = "get_recent_anomalies"
    => /\ \A route \in Members(r, << "seen_routes" >>) :
             InReport(last, route)
             <=> OwnResidual(r, route, last.log_hour,
                             last.anomalies.detectors[route]) < AnomalyThreshold
       /\ \A i \in DOMAIN last.anomalies.report :
             /\ last.anomalies.report[i].status = HTTP_OK_CODE
             /\ last.anomalies.report[i].count
                = RecordedCount(last.anomalies.report[i].route, HTTP_OK_CODE,
                                last.log_hour)

\* The case of C32 for the route: the log hour is not in the series that
\* is left after the truncation, or is its first hour, or the detector
\* could not decompose the series.
NothingToScore(db, route, log_hour, detector) ==
    \/ LogHourIndex(OkSeries(db, route).dates_seen, log_hour) = -1
    \/ LogHourIndex(OkSeries(db, route).dates_seen, log_hour) = 0
    \/ detector.raises

\* C32: _get_recent_anomalies(H) reports no anomaly for a route when H is
\* not in the route's status-200 series after the truncation to a multiple
\* of the period, when H is the first hour of that series, or when the
\* detector fails on the series (the scores are then all zero).
C32_NothingToScoreNoAnomaly ==
    last.op = "get_recent_anomalies"
    => \A route \in Members(r, << "seen_routes" >>) :
          NothingToScore(r, route, last.log_hour,
                         last.anomalies.detectors[route])
          => ~InReport(last, route)

\* Three hours were marked received and /path has a count in the first
\* one: the series is cut to the last two hours, and the report for the
\* second hour, the first of the cut series, is empty although the detector
\* scores both positions -20.
C32_Witness ==
    /\ last.op = "get_recent_anomalies"
    /\ last.log_hour = << 20100120, 1 >>
    /\ MarkedHours = { << 20100120, 0 >>, << 20100120, 1 >>, << 20100120, 2 >> }
    /\ RecordedCount("/path", HTTP_OK_CODE, << 20100120, 0 >>) = 100
    /\ OkSeries(r, "/path").dates_seen = << << 20100120, 1 >>, << 20100120, 2 >> >>
    /\ ~last.anomalies.detectors["/path"].raises
    /\ \A i \in 1..MaxSeries : last.anomalies.detectors["/path"].scores[i] = -20
    /\ last.anomalies.report = << >>

\* C33: every key of the database other than the errordef:* identifier
\* tables has an expiry time, 7 days or, for the per-address set of a
\* monitoring minute, 1 hour after the write that set it.
C33_EveryKeyExpires ==
    \A k \in DOMAIN r.data :
       k[1] # "errordef"
       => /\ k \in DOMAIN r.ttl
          /\ r.ttl[k] <= now + KEY_EXPIRY_SECONDS

\* C34: a record call that answers a key K leaves error:K in the database
\* with a fresh expiry time of 7 days, whatever the caches hold and also
\* when K was found in _error_def_cache or through an identifier while
\* error:K had expired.
C34_RecordWritesPayload ==
    [][ (IsRecord(last') /\ last'.error_key # NoKey)
        => /\ Exists(r', << "error", last'.error_key >>)
           /\ << "error", last'.error_key >> \in DOMAIN r'.ttl
           /\ r'.ttl[<< "error", last'.error_key >>] = now' + KEY_EXPIRY_SECONDS
      ]_vars

\* "Error while parsing directive 1" was recorded and read, seven days
\* passed, and "Error while parsing foo bar baz" was recorded: it resolved
\* through the cache to the key of the first, whose payload had expired,
\* and the payload is there again under that key, made of the second.
C34_Witness ==
    /\ last.op \in { "record_occurrence_during_monitoring",
                     "record_occurrence_from_errors" }
    /\ last.log = LogFoo
    /\ last.error_key = DefOf(LogDirective1).key
    /\ last.error_key \in DOMAIN caches.def
    /\ counters = [ records |-> 2, reads |-> 1, ticks |-> 1 ]
    /\ now = KEY_EXPIRY_SECONDS
    /\ history.creator[last.error_key].title = DefOf(LogFoo).title
    /\ Exists(r, << "error", last.error_key >>)
    /\ r.ttl[<< "error", last.error_key >>] = now + KEY_EXPIRY_SECONDS

\* C39: the payload stored under error:K has K in its key field, for every
\* key K and after any sequence of record calls, reads and expiries: also
\* when an occurrence joined K through an identifier while its own hash is
\* another, and when the payload was written again after it had expired.
C39_PayloadHoldsItsKey ==
    \A k \in DOMAIN r.data :
       k[1] = "error" => r.data[k].key = k[2]

\* "Error while parsing directive 1" was recorded, seven days passed, and
\* "Error while parsing foo bar baz" was recorded: it resolved through the
\* identifier table of id1 to the key of the first, and the payload was
\* written again under that key from the definition of the second, whose
\* own hash is another.
C39_Witness ==
    /\ last.op \in { "record_occurrence_during_monitoring",
                     "record_occurrence_from_errors" }
    /\ last.log = LogFoo
    /\ last.error_key = DefOf(LogDirective1).key
    /\ DefOf(LogFoo).key # last.error_key
    /\ caches = EmptyCaches
    /\ counters = [ records |-> 2, reads |-> 0, ticks |-> 1 ]
    /\ now = KEY_EXPIRY_SECONDS
    /\ r.data[<< "error", last.error_key >>].title = DefOf(LogFoo).title
    /\ r.data[<< "error", last.error_key >>].id0 = DefOf(LogFoo).id0
    /\ r.data[<< "error", last.error_key >>].key = last.error_key

\* The caches after the keys were read one after the other with
\* _get_cached_error_def, starting from cs.
RECURSIVE CachesAfterReads(_, _, _)
CachesAfterReads(cs, db, keys) ==
    IF keys = << >> THEN cs
    ELSE CachesAfterReads(get_cached_error_def(cs, db, Head(keys)).caches, db,
                          Tail(keys))

\* The orders in which some of the keys may be read, each key once.
ReadOrders(keys) ==
    UNION { { s \in [ 1..n -> keys ] :
                \A i, j \in 1..n : s[i] = s[j] => i = j } :
            n \in 0..Cardinality(keys) }

\* C38: for the database as it is and every parsed definition,
\* _find_error_by_def answers the same key with empty caches and with the
\* caches filled by reads of some of the classes of that database.
C38_CachesDoNotDecide ==
    \A log \in scenario.logs :
       \A keys \in ReadOrders(ErrorClasses(r)) :
          find_error_by_def(CachesAfterReads(EmptyCaches, r, keys), r, DefOf(log))
          = find_error_by_def(EmptyCaches, r, DefOf(log))

\* p <= q for two probabilities of the same history: the fractions have
\* the same denominator unless one of them is 0.
ProbabilityLeq(p, q) ==
    \/ p.num = 0
    \/ /\ q.num # 0
       /\ p.den = q.den
       /\ p.num <= q.num

\* C35: _count_is_elevated_probability answers (0, 0) for an empty
\* history and (mean, 0) for a recent count below the mean of the history;
\* for any other count the expected count is max(mean, 1), and the
\* probability does not go down when the recent count goes up.
C35_BaselineAnswers ==
    last.op = "count_is_elevated_probability"
    => LET h == last.baseline.historical_counts
           n == Len(h)
           recent_count == last.baseline.recent_count
       IN  /\ n = 0
              => /\ last.baseline.expected_num = 0
                 /\ last.baseline.probability.num = 0
           /\ (n > 0 /\ recent_count * n < SumSeq(h))
              => /\ last.baseline.expected_num * n
                    = SumSeq(h) * last.baseline.expected_den
                 /\ last.baseline.probability.num = 0
           /\ (n > 0 /\ recent_count * n >= SumSeq(h))
              => /\ last.baseline.expected_num * n
                    = ( IF SumSeq(h) < n THEN n ELSE SumSeq(h) )
                      * last.baseline.expected_den
                 /\ last.baseline.probability.num > 0
           /\ ProbabilityLeq(last.baseline.probability,
                             elevated_probability(h, recent_count + 1).probability)

\* The history is one occurrence in three minutes, a mean of 1/3, and the
\* recent count is 1: the expected count is 1 and the probability is that
\* of at most one occurrence, below that of at most two.
C35_Witness ==
    /\ last.op = "count_is_elevated_probability"
    /\ last.baseline.historical_counts = << 0, 1, 0 >>
    /\ last.baseline.recent_count = 1
    /\ last.baseline.expected_num = last.baseline.expected_den
    /\ last.baseline.probability.num > 0
    /\ last.baseline.probability.num
       < elevated_probability(<< 0, 1, 0 >>, 2).probability.num
    /\ last.baseline.probability.num < last.baseline.probability.den

\* C40: whenever first_seen:K holds a log hour, last_seen:K exists and is
\* not earlier than the earliest hour of first_seen:K, whatever the order
\* of the log hours and whichever keys have expired.
C40_LastSeenWithFirstSeen ==
    \A k \in DOMAIN r.data :
       (k[1] = "first_seen" /\ Members(r, k) # {})
       => /\ Exists(r, << "last_seen", k[2] >>)
          /\ LogHourInt(r.data[<< "last_seen", k[2] >>])
             >= LogHourInt(ZFirst(r, k))

\* The handlers that have returned from a call for the error from the
\* address in the minute of the version.
Returned(version, minute, ip, error_key) ==
    { i \in 1..NumHandlers :
        /\ last.handlers[i].pc = "done"
        /\ last.handlers[i].version = version
        /\ last.handlers[i].minute = minute
        /\ last.handlers[i].log.ip = ip
        /\ last.handlers[i].error_key = error_key }

\* C36: once two handlers have recorded an occurrence of the same error
\* from the same address for the same version and minute, however their
\* Redis commands interleaved, the unique count of the error in the minute
\* is 1, and get_monitoring_errors lists the error with that count.
C36_UniqueOnceWhenConcurrent ==
    \A i \in 1..NumHandlers :
       ( /\ last.handlers[i].pc = "done"
         /\ last.handlers[i].error_key # NoKey
         /\ Cardinality(Returned(last.handlers[i].version,
                                 last.handlers[i].minute,
                                 last.handlers[i].log.ip,
                                 last.handlers[i].error_key)) = 2
         /\ \A j \in 1..NumHandlers : last.handlers[j].pc \in { "idle", "done" } )
       => /\ Score(r, UniqueErrorsByMinute(last.handlers[i]),
                   last.handlers[i].error_key) = 1
          /\ \E e \in get_monitoring_errors(caches, r, last.handlers[i].version,
                                            last.handlers[i].minute).errors :
                /\ e.error.key = last.handlers[i].error_key
                /\ e.count = 1

\* func applied to every argument of the list, in the order of the list.
Mapped(args_list) == [ i \in 1..Len(args_list) |-> func(args_list[i]) ]

\* The call has returned what C37 says: one output per argument, the i-th
\* one func of the i-th argument, with every worker process exited after
\* its sentinel and nothing left in the queues.
MapReturned ==
    /\ last.map.pc = "returned"
    /\ last.map.returned = Mapped(last.map.args_list)
    /\ \A w \in 1..last.map.num_processes :
          /\ last.map.processes[w].pc = "exited"
          /\ last.map.processes[w].item.stop
    /\ last.map.input_queue = << >>
    /\ last.map.output_queue = << >>

=============================================================================
